---- MODULE Spec2Model ----
(***************************************************************************)
(* Model of the prompt language processor of nai-codex:                    *)
(*   libs/core/src/prompt_parser.rs  (PromptParser: strip_comments, parse, *)
(*                                    calculate_weight, format)            *)
(*   libs/core/src/preset.rs         (CharacterPreset, MainPresetSettings) *)
(*                                                                         *)
(* A Rust String is a sequence of characters; a character is a TLA+ string *)
(* naming it ("a", "/", "\n", ...).  "han" names one CJK character, which  *)
(* is three bytes long in UTF-8, so byte offsets and character indices     *)
(* differ.  Option<T> is a sequence: None is <<>> and Some(v) is <<v>>.    *)
(* An f64 read from a short decimal numeral is the exact rational          *)
(* [num, den] in lowest terms.                                             *)
(***************************************************************************)
EXTENDS Integers, Sequences, FiniteSets, TLC

VARIABLES
    call,           \* the entry point invoked on `input`
    input,          \* the &str argument
    pc,             \* position of the call: "call", "loop" or "returned"
    chars,          \* parse: Vec<(usize, char)>, the char_indices of input
    pos,            \* parse: index into chars
    tokens,         \* parse: Vec<Token>
    brace_depth,    \* parse: {} depth
    bracket_depth,  \* parse: [] depth
    colon_weight,   \* parse: Option<f64>
    iterations,     \* parse: number of iterations of the main loop so far
    result,         \* value returned by the call (<<>> before it returns)
    preset,         \* the preset rule a preset call applies (<<>> otherwise)
    snippets,       \* CoreStorage: TABLE_SNIPPETS, id -> Snippet
    name_index,     \* CoreStorage: TABLE_SNIPPET_NAME_INDEX, name -> id
    presets,        \* CoreStorage: TABLE_PRESETS, id -> CharacterPreset
    main_presets,   \* CoreStorage: TABLE_MAIN_PRESETS, id -> MainPreset
    settings,       \* CoreStorage: Option<LastGenerationSettings>
    records,        \* CoreStorage: TABLE_RECORDS, the records appended
    lookups,        \* the names get_snippet_by_name was called with, in order
    task,           \* the GenerateTaskRequest a processor call works on
    locals,         \* the local variables of the calls in progress
    client,         \* the requests NaiClient::generate_image received
    statuses,       \* TaskQueue: statuses, task id -> TaskStatus
    channel,        \* TaskQueue: the tasks sent into the mpsc channel, in order
    received        \* TaskQueue: how many of them rx.recv() has returned

\* the tables of CoreStorage
storage_vars == <<snippets, name_index, presets, main_presets, settings, records>>

\* what a processor call works on besides the storage
processor_vars == <<lookups, task, locals, client>>

\* the state of the TaskQueue
queue_vars == <<statuses, channel, received>>

vars == <<call, input, pc, chars, pos, tokens, brace_depth, bracket_depth,
          colon_weight, iterations, result, preset, storage_vars,
          processor_vars, queue_vars>>

-----------------------------------------------------------------------------
(* Bounds of the model *)

\* an input is the concatenation of at most MaxPieces pieces
MaxPieces == 3

\* a text given to expand is the concatenation of at most MaxTextPieces pieces
MaxTextPieces == 3

\* a request has at most MaxSlots character slots
MaxSlots == 2

\* a task asks for at most MaxCount images
MaxCount == 2

\* an input nesting weight scopes is the concatenation of at most
\* MaxWeightPieces pieces
MaxWeightPieces == 4

\* a raw prompt handed to a preset has at most MaxRawLen characters
MaxRawLen == 2

\* the number of fragments a prompt built around comments has at most
MaxCommentPieces == 3

\* the number of tasks submitted to the TaskQueue
MaxTasks == 3

-----------------------------------------------------------------------------
(* Option and small helpers *)

None == <<>>

Some(v) == <<v>>

is_some(o) == Len(o) > 0

unwrap(o) == o[1]

Max(a, b) == IF a >= b THEN a ELSE b

RECURSIVE Concat(_)
\* concatenation of a sequence of strings
Concat(ss) == IF Len(ss) = 0 THEN <<>> ELSE Head(ss) \o Concat(Tail(ss))

-----------------------------------------------------------------------------
(* Characters, UTF-8 and char_indices *)

\* char::len_utf8: "han" is a three-byte character, all others are ASCII
len_utf8(c) == IF c = "han" THEN 3 ELSE 1

\* the UTF-8 encoding of a character
utf8(c) == IF c = "han" THEN <<"xE6", "xB1", "x89">> ELSE <<c>>

RECURSIVE as_bytes(_)
\* str::as_bytes
as_bytes(s) == IF Len(s) = 0 THEN <<>> ELSE utf8(Head(s)) \o as_bytes(Tail(s))

\* str::len, in bytes
str_len(s) == Len(as_bytes(s))

RECURSIVE char_indices_from(_, _)
char_indices_from(s, b) ==
    IF Len(s) = 0 THEN <<>>
    ELSE << <<b, Head(s)>> >> \o char_indices_from(Tail(s), b + len_utf8(Head(s)))

\* str::char_indices().collect(): Vec<(usize, char)>
char_indices(s) == char_indices_from(s, 0)

\* chs[i].0 and chs[i].1 for a 0-based index i
ByteAt(chs, i) == chs[i + 1][1]

CharAt(chs, i) == chs[i + 1][2]

\* input[p..].chs().next().unwrap() for a byte offset p on a char boundary
CharAtByte(s, p) ==
    LET chs == char_indices(s)
        i == CHOOSE j \in 1..Len(chs) : chs[j][1] = p
    IN  chs[i][2]

is_ascii_digit(c) == c \in {"0", "1", "2", "3", "4", "5", "6", "7", "8", "9"}

\* char::is_whitespace
is_whitespace(c) == c \in {" ", "\t", "\n", "\r"}

RECURSIVE trim_start(_)
trim_start(s) ==
    IF Len(s) > 0 /\ is_whitespace(Head(s)) THEN trim_start(Tail(s)) ELSE s

RECURSIVE trim_end(_)
trim_end(s) ==
    IF Len(s) > 0 /\ is_whitespace(s[Len(s)])
    THEN trim_end(SubSeq(s, 1, Len(s) - 1)) ELSE s

\* str::trim
trim(s) == trim_end(trim_start(s))

\* str::ends_with(char)
ends_with(s, c) == Len(s) > 0 /\ s[Len(s)] = c

\* str::starts_with(char)
starts_with(s, c) == Len(s) > 0 /\ s[1] = c

-----------------------------------------------------------------------------
(* PromptParser::strip_comments *)

RECURSIVE strip_find_end_one_slash(_, _)
\* strip_find_end stepping over only one character of the closing //
strip_find_end_one_slash(bytes, p) ==
    IF p + 1 < Len(bytes)
    THEN IF bytes[p + 1] = "/" /\ bytes[p + 2] = "/"
         THEN p + 1
         ELSE strip_find_end_one_slash(bytes, p + 1)
    ELSE -1

RECURSIVE strip_find_end(_, _)
\* the inner loop: the position after the closing // searched from pos,
\* or -1 when found_end stays false
strip_find_end(bytes, p) ==
    IF p + 1 < Len(bytes)
    THEN IF bytes[p + 1] = "/" /\ bytes[p + 2] = "/"
         THEN p + 2
         ELSE strip_find_end(bytes, p + 1)
    ELSE -1

RECURSIVE strip_loop(_, _, _)
strip_loop(s, p, out) ==
    LET bytes == as_bytes(s)
        len == Len(bytes)
    IN  IF p < len
        THEN IF p + 1 < len /\ bytes[p + 1] = "/" /\ bytes[p + 2] = "/"
             THEN LET comment_start == p
                      after == strip_find_end(bytes, p + 2)
                  IN  IF after = -1
                      THEN [ok |-> FALSE, err |-> comment_start]
                      ELSE strip_loop(s, after, out)
             ELSE LET c == CharAtByte(s, p)
                  IN  strip_loop(s, p + len_utf8(c), Append(out, c))
        ELSE [ok |-> TRUE, value |-> out]

\* Result<String, ParseError>: [ok |-> TRUE, value] or
\* [ok |-> FALSE, err] with err the argument of UnclosedComment
strip_comments(s) == strip_loop(s, 0, <<>>)

-----------------------------------------------------------------------------
(* PromptParser::find_comments *)

\* input[from..to] for byte offsets from and to on character boundaries
str_slice(s, from, to) ==
    LET kept == SelectSeq(char_indices(s), LAMBDA e : e[1] >= from /\ e[1] < to)
    IN  [i \in 1..Len(kept) |-> kept[i][2]]

RECURSIVE find_loop(_, _, _)
\* the outer loop from pos = p on.  The inner loop is the one of
\* strip_comments; when it finds no closing // it leaves pos where no
\* comment can start any more, and nothing is pushed.
find_loop(s, p, comments) ==
    LET bytes == as_bytes(s)
        len == Len(bytes)
    IN  IF p < len
        THEN IF p + 1 < len /\ bytes[p + 1] = "/" /\ bytes[p + 2] = "/"
             THEN LET comment_start == p
                      content_start == p + 2
                      after == strip_find_end(bytes, p + 2)
                  IN  IF after = -1 THEN comments
                      ELSE find_loop(s, after,
                               Append(comments,
                                   [start |-> comment_start, end |-> after,
                                    content |-> str_slice(s, content_start, after - 2)]))
             ELSE find_loop(s, p + 1, comments)
        ELSE comments

\* Vec<CommentSpan>
find_comments(s) == find_loop(s, 0, <<>>)

-----------------------------------------------------------------------------
(* f64 values of decimal numerals, as exact rationals *)

RECURSIVE Gcd(_, _)
Gcd(a, b) == IF b = 0 THEN a ELSE Gcd(b, a % b)

Abs(n) == IF n < 0 THEN 0 - n ELSE n

\* the rational num/den in lowest terms, den > 0 (-0.0 and 0.0 are equal)
Rat(num, den) ==
    LET g == Gcd(Abs(num), Abs(den))
        sgn == IF den < 0 THEN -1 ELSE 1
    IN  [num |-> sgn * (num \div g), den |-> sgn * (den \div g)]

RMul(a, b) == Rat(a.num * b.num, a.den * b.den)

RDiv(a, b) == Rat(a.num * b.den, a.den * b.num)

RECURSIVE powi(_, _)
\* f64::powi for a non-negative exponent
powi(x, n) == IF n = 0 THEN Rat(1, 1) ELSE RMul(x, powi(x, n - 1))

DigitChars == <<"0", "1", "2", "3", "4", "5", "6", "7", "8", "9">>

DigitVal(c) == (CHOOSE i \in 1..10 : DigitChars[i] = c) - 1

RECURSIVE DecimalValue(_, _, _, _)
\* reads the digits and the dot of an unsigned numeral: acc is the digits
\* read so far as an integer, scale is 10^(digits after the dot)
DecimalValue(str, acc, scale, after_dot) ==
    IF Len(str) = 0 THEN Rat(acc, scale)
    ELSE IF Head(str) = "."
         THEN DecimalValue(Tail(str), acc, scale, TRUE)
         ELSE DecimalValue(Tail(str), acc * 10 + DigitVal(Head(str)),
                           IF after_dot THEN scale * 10 ELSE scale, after_dot)

\* str::parse::<f64>() of a numeral -?[0-9]*(.[0-9]*)? with at least one digit,
\* which always succeeds
parse_f64(num_str) ==
    IF starts_with(num_str, "-")
    THEN LET v == DecimalValue(Tail(num_str), 0, 1, FALSE)
         IN  Rat(0 - v.num, v.den)
    ELSE DecimalValue(num_str, 0, 1, FALSE)

RECURSIVE NatDigits(_)
\* the decimal digits of a natural number
NatDigits(n) ==
    IF n < 10 THEN <<DigitChars[n + 1]>>
    ELSE NatDigits(n \div 10) \o <<DigitChars[(n % 10) + 1]>>

RECURSIVE FracDigits(_, _)
\* the digits after the dot of rem/den, for 0 <= rem < den, den a divisor
\* of a power of ten
FracDigits(rem, den) ==
    IF rem = 0 THEN <<>>
    ELSE <<DigitChars[((rem * 10) \div den) + 1]>> \o FracDigits((rem * 10) % den, den)

\* format!("{}", v as i64) when v == v.floor(), format!("{}", v) otherwise
format_weight_value(v) ==
    IF v.den = 1
    THEN (IF v.num < 0 THEN <<"-">> ELSE <<>>) \o NatDigits(Abs(v.num))
    ELSE (IF v.num < 0 THEN <<"-">> ELSE <<>>)
         \o NatDigits(Abs(v.num) \div v.den)
         \o <<".">> \o FracDigits(Abs(v.num) % v.den, v.den)

-----------------------------------------------------------------------------
(* PromptParser::calculate_weight *)

\* const WEIGHT_MULTIPLIER: f64 = 1.05
WEIGHT_MULTIPLIER == Rat(105, 100)

\* calculate_weight multiplying by the bracket factor instead of dividing
calculate_weight_bracket_mul(b_depth, k_depth, c_weight) ==
    LET w0 == Rat(1, 1)
        w1 == IF b_depth > 0 THEN RMul(w0, powi(WEIGHT_MULTIPLIER, b_depth)) ELSE w0
        w2 == IF k_depth > 0 THEN RMul(w1, powi(WEIGHT_MULTIPLIER, k_depth)) ELSE w1
    IN  IF is_some(c_weight) THEN RMul(w2, unwrap(c_weight)) ELSE w2

calculate_weight(b_depth, k_depth, c_weight) ==
    LET w0 == Rat(1, 1)
        w1 == IF b_depth > 0 THEN RMul(w0, powi(WEIGHT_MULTIPLIER, b_depth)) ELSE w0
        w2 == IF k_depth > 0 THEN RDiv(w1, powi(WEIGHT_MULTIPLIER, k_depth)) ELSE w1
    IN  IF is_some(c_weight) THEN RMul(w2, unwrap(c_weight)) ELSE w2

-----------------------------------------------------------------------------
(* PromptParser::try_parse_weight_start *)

RECURSIVE scan_number(_, _, _, _, _)
\* the digit-collecting loop: [pos, num_str, has_digit] when it breaks
scan_number(chs, p, num_str, has_digit, has_dot) ==
    IF p < Len(chs)
    THEN LET ch == CharAt(chs, p)
         IN  IF is_ascii_digit(ch)
             THEN scan_number(chs, p + 1, Append(num_str, ch), TRUE, has_dot)
             ELSE IF ch = "." /\ ~has_dot
                  THEN scan_number(chs, p + 1, Append(num_str, ch), has_digit, TRUE)
                  ELSE [pos |-> p, num_str |-> num_str, has_digit |-> has_digit]
    ELSE [pos |-> p, num_str |-> num_str, has_digit |-> has_digit]

\* Option<(f64, usize, usize)>: (weight, chs consumed, end byte)
try_parse_weight_start(chs, start) ==
    LET neg == start < Len(chs) /\ CharAt(chs, start) = "-"
        n == scan_number(chs, IF neg THEN start + 1 ELSE start,
                         IF neg THEN <<"-">> ELSE <<>>, FALSE, FALSE)
        p == n.pos
    IN  IF ~n.has_digit THEN None
        ELSE IF p + 1 < Len(chs) /\ CharAt(chs, p) = ":" /\ CharAt(chs, p + 1) = ":"
             THEN Some(<<parse_f64(n.num_str), p - start + 2, ByteAt(chs, p + 1) + 1>>)
             ELSE None

-----------------------------------------------------------------------------
(* PromptParser::try_parse_snippet_ref *)

SnippetPrefix == <<"<", "s", "n", "i", "p", "p", "e", "t", ":">>

RECURSIVE match_prefix(_, _, _)
\* the position after the prefix, or -1 when a character does not match
match_prefix(chs, p, expected) ==
    IF Len(expected) = 0 THEN p
    ELSE IF p >= Len(chs) \/ CharAt(chs, p) # Head(expected) THEN -1
         ELSE match_prefix(chs, p + 1, Tail(expected))

RECURSIVE collect_name_char_end(_, _, _, _)
\* collect_name taking the end byte from the number of characters consumed
collect_name_char_end(chs, start, p, name) ==
    IF p < Len(chs)
    THEN LET ch == CharAt(chs, p)
         IN  IF ch = ">"
             THEN Some(<<name, p - start + 1, ByteAt(chs, start) + (p - start + 1)>>)
             ELSE IF ch = "<" \/ ch = "\n" THEN None
                  ELSE collect_name_char_end(chs, start, p + 1, Append(name, ch))
    ELSE None

RECURSIVE collect_name(_, _, _, _)
collect_name(chs, start, p, name) ==
    IF p < Len(chs)
    THEN LET ch == CharAt(chs, p)
         IN  IF ch = ">"
             THEN Some(<<name, p - start + 1, ByteAt(chs, p) + 1>>)
             ELSE IF ch = "<" \/ ch = "\n" THEN None
                  ELSE collect_name(chs, start, p + 1, Append(name, ch))
    ELSE None

\* Option<(String, usize, usize)>: (name, chs consumed, end byte)
try_parse_snippet_ref(chs, start) ==
    LET p == match_prefix(chs, start, SnippetPrefix)
    IN  IF p = -1 THEN None ELSE collect_name(chs, start, p, <<>>)

-----------------------------------------------------------------------------
(* PromptParser::parse: one iteration of the main loop                      *)
(* st is the loop state [pos, tokens, brace_depth, bracket_depth,           *)
(* colon_weight]; chs is the vector chars.                                 *)

RECURSIVE find_comment_end(_, _)
\* the index of the closing // searched from comment_pos, or -1
find_comment_end(chs, comment_pos) ==
    IF comment_pos + 1 < Len(chs)
    THEN IF CharAt(chs, comment_pos) = "/" /\ CharAt(chs, comment_pos + 1) = "/"
         THEN comment_pos
         ELSE find_comment_end(chs, comment_pos + 1)
    ELSE -1

\* chs[from..to] mapped to their characters
CharsOf(chs, from, to) == [i \in 1..(to - from) |-> CharAt(chs, from + i - 1)]

\* a closed comment starts at st.pos
at_comment(chs, st) ==
    /\ CharAt(chs, st.pos) = "/"
    /\ st.pos + 1 < Len(chs)
    /\ CharAt(chs, st.pos + 1) = "/"
    /\ find_comment_end(chs, st.pos + 2) # -1

\* the comment branch with a span that leaves the two delimiters out
parse_comment_content_span(chs, st) ==
    LET content_start == st.pos + 2
        content_end == find_comment_end(chs, st.pos + 2)
    IN  [st EXCEPT !.tokens = Append(@, [type |-> "Comment",
                                          value |-> CharsOf(chs, content_start, content_end),
                                          start |-> ByteAt(chs, content_start),
                                          end |-> ByteAt(chs, content_end)]),
                   !.pos = content_end + 2]

parse_comment(chs, st) ==
    LET comment_start == ByteAt(chs, st.pos)
        content_start == st.pos + 2
        content_end == find_comment_end(chs, st.pos + 2)
        comment_end == ByteAt(chs, content_end + 1) + 1
    IN  [st EXCEPT !.tokens = Append(@, [type |-> "Comment",
                                          value |-> CharsOf(chs, content_start, content_end),
                                          start |-> comment_start, end |-> comment_end]),
                   !.pos = content_end + 2]

parse_newline(chs, st) ==
    LET byte_pos == ByteAt(chs, st.pos)
    IN  [st EXCEPT !.tokens = Append(@, [type |-> "Newline", start |-> byte_pos,
                                          end |-> byte_pos + 1]),
                   !.pos = @ + 1]

parse_carriage_return(chs, st) ==
    LET byte_pos == ByteAt(chs, st.pos)
    IN  IF st.pos + 1 < Len(chs) /\ CharAt(chs, st.pos + 1) = "\n"
        THEN [st EXCEPT !.tokens = Append(@, [type |-> "Newline", start |-> byte_pos,
                                               end |-> ByteAt(chs, st.pos + 1) + 1]),
                        !.pos = @ + 2]
        ELSE [st EXCEPT !.tokens = Append(@, [type |-> "Newline", start |-> byte_pos,
                                               end |-> byte_pos + 1]),
                        !.pos = @ + 1]

at_weight_start(chs, st) ==
    LET ch == CharAt(chs, st.pos)
    IN  /\ is_ascii_digit(ch) \/ ch = "-" \/ ch = "."
        /\ is_some(try_parse_weight_start(chs, st.pos))

parse_weight_start(chs, st) ==
    LET r == unwrap(try_parse_weight_start(chs, st.pos))
        weight_val == r[1]
        consumed == r[2]
        end_byte == r[3]
    IN  [st EXCEPT !.tokens = Append(@, [type |-> "WeightStart", value |-> weight_val,
                                          start |-> ByteAt(chs, st.pos),
                                          end |-> end_byte]),
                   !.colon_weight = Some(weight_val),
                   !.pos = @ + consumed]

at_weight_end(chs, st) ==
    /\ CharAt(chs, st.pos) = ":"
    /\ st.pos + 1 < Len(chs)
    /\ CharAt(chs, st.pos + 1) = ":"
    /\ is_some(st.colon_weight)

\* parse_weight_end leaving the active multiplier in place
parse_weight_end_keeps_scalar(chs, input_len, st) ==
    [st EXCEPT !.tokens = Append(@, [type |-> "WeightEnd",
                                      start |-> ByteAt(chs, st.pos),
                                      end |-> ByteAt(chs, st.pos + 1) + 1]),
               !.pos = @ + 2]

parse_weight_end(chs, input_len, st) ==
    LET end_byte == IF st.pos + 1 < Len(chs)
                    THEN ByteAt(chs, st.pos + 1) + len_utf8(CharAt(chs, st.pos + 1))
                    ELSE input_len
    IN  [st EXCEPT !.tokens = Append(@, [type |-> "WeightEnd",
                                          start |-> ByteAt(chs, st.pos),
                                          end |-> end_byte]),
                   !.colon_weight = None,
                   !.pos = @ + 2]

parse_brace_open(chs, st) ==
    LET byte_pos == ByteAt(chs, st.pos)
        depth == st.brace_depth + 1
    IN  [st EXCEPT !.brace_depth = depth,
                   !.tokens = Append(@, [type |-> "BraceOpen", start |-> byte_pos,
                                          end |-> byte_pos + 1, depth |-> depth]),
                   !.pos = @ + 1]

\* parse_brace_close without the clamp at 0
parse_brace_close_unclamped(chs, st) ==
    LET byte_pos == ByteAt(chs, st.pos)
        depth == st.brace_depth - 1
    IN  [st EXCEPT !.brace_depth = depth,
                   !.tokens = Append(@, [type |-> "BraceClose", start |-> byte_pos,
                                          end |-> byte_pos + 1, depth |-> depth]),
                   !.pos = @ + 1]

parse_brace_close(chs, st) ==
    LET byte_pos == ByteAt(chs, st.pos)
        depth == Max(st.brace_depth - 1, 0)
    IN  [st EXCEPT !.brace_depth = depth,
                   !.tokens = Append(@, [type |-> "BraceClose", start |-> byte_pos,
                                          end |-> byte_pos + 1, depth |-> depth]),
                   !.pos = @ + 1]

parse_bracket_open(chs, st) ==
    LET byte_pos == ByteAt(chs, st.pos)
        depth == st.bracket_depth + 1
    IN  [st EXCEPT !.bracket_depth = depth,
                   !.tokens = Append(@, [type |-> "BracketOpen", start |-> byte_pos,
                                          end |-> byte_pos + 1, depth |-> depth]),
                   !.pos = @ + 1]

parse_bracket_close(chs, st) ==
    LET byte_pos == ByteAt(chs, st.pos)
        depth == Max(st.bracket_depth - 1, 0)
    IN  [st EXCEPT !.bracket_depth = depth,
                   !.tokens = Append(@, [type |-> "BracketClose", start |-> byte_pos,
                                          end |-> byte_pos + 1, depth |-> depth]),
                   !.pos = @ + 1]

parse_comma(chs, st) ==
    LET byte_pos == ByteAt(chs, st.pos)
    IN  [st EXCEPT !.tokens = Append(@, [type |-> "Comma", start |-> byte_pos,
                                          end |-> byte_pos + 1]),
                   !.pos = @ + 1]

RECURSIVE whitespace_end(_, _)
\* the inner loop of the whitespace branch: the index where the run ends
whitespace_end(chs, p) ==
    IF p < Len(chs)
    THEN LET next_ch == CharAt(chs, p)
         IN  IF is_whitespace(next_ch) /\ next_ch # "\n" /\ next_ch # "\r"
             THEN whitespace_end(chs, p + 1)
             ELSE p
    ELSE p

parse_whitespace(chs, st) ==
    LET start == ByteAt(chs, st.pos)
        stop == whitespace_end(chs, st.pos + 1)
        end == ByteAt(chs, stop - 1) + len_utf8(CharAt(chs, stop - 1))
    IN  [st EXCEPT !.tokens = Append(@, [type |-> "Whitespace",
                                          value |-> CharsOf(chs, st.pos, stop),
                                          start |-> start, end |-> end]),
                   !.pos = stop]

at_snippet_ref(chs, st) ==
    /\ CharAt(chs, st.pos) = "<"
    /\ is_some(try_parse_snippet_ref(chs, st.pos))

parse_snippet_ref(chs, st) ==
    LET r == unwrap(try_parse_snippet_ref(chs, st.pos))
        name == r[1]
        consumed == r[2]
        end_byte == r[3]
        weight == calculate_weight(st.brace_depth, st.bracket_depth, st.colon_weight)
    IN  [st EXCEPT !.tokens = Append(@, [type |-> "SnippetRef", name |-> name,
                                          start |-> ByteAt(chs, st.pos),
                                          end |-> end_byte, weight |-> weight]),
                   !.pos = @ + consumed]

RECURSIVE text_end_pos(_, _)
\* the text-collecting loop: the index where it breaks
text_end_pos(chs, p) ==
    IF p < Len(chs)
    THEN LET c == CharAt(chs, p)
         IN  IF \/ c \in {"{", "}", "[", "]", ",", "\n", "\r", "<"}
                \/ (c = ":" /\ p + 1 < Len(chs) /\ CharAt(chs, p + 1) = ":")
                \/ (c = "/" /\ p + 1 < Len(chs) /\ CharAt(chs, p + 1) = "/")
             THEN p
             ELSE IF /\ is_ascii_digit(c) \/ c = "-" \/ c = "."
                     /\ is_some(try_parse_weight_start(chs, p))
                  THEN p
                  ELSE text_end_pos(chs, p + 1)
    ELSE p

parse_text(chs, st) ==
    LET text_start == ByteAt(chs, st.pos)
        stop == text_end_pos(chs, st.pos)
        text == CharsOf(chs, st.pos, stop)
        text_end == IF stop > st.pos
                    THEN ByteAt(chs, stop - 1) + len_utf8(CharAt(chs, stop - 1))
                    ELSE text_start
        weight == calculate_weight(st.brace_depth, st.bracket_depth, st.colon_weight)
    IN  IF Len(text) # 0
        THEN [st EXCEPT !.tokens = Append(@, [type |-> "Text", value |-> text,
                                               start |-> text_start, end |-> text_end,
                                               weight |-> weight]),
                        !.pos = stop]
        ELSE [st EXCEPT !.pos = stop]

\* the branch of the loop body taken at st.pos, in the order of the code
parse_branch(chs, st) ==
    LET ch == CharAt(chs, st.pos)
    IN  IF at_comment(chs, st) THEN "comment"
        ELSE IF ch = "\n" THEN "newline"
        ELSE IF ch = "\r" THEN "carriage_return"
        ELSE IF at_weight_start(chs, st) THEN "weight_start"
        ELSE IF at_weight_end(chs, st) THEN "weight_end"
        ELSE IF ch = "{" THEN "brace_open"
        ELSE IF ch = "}" THEN "brace_close"
        ELSE IF ch = "[" THEN "bracket_open"
        ELSE IF ch = "]" THEN "bracket_close"
        ELSE IF ch = "," THEN "comma"
        ELSE IF is_whitespace(ch) THEN "whitespace"
        ELSE IF at_snippet_ref(chs, st) THEN "snippet_ref"
        ELSE "text"

\* the body of `while pos < chs.len()`
parse_iteration(chs, input_len, st) ==
    LET b == parse_branch(chs, st)
    IN  CASE b = "comment" -> parse_comment(chs, st)
          [] b = "newline" -> parse_newline(chs, st)
          [] b = "carriage_return" -> parse_carriage_return(chs, st)
          [] b = "weight_start" -> parse_weight_start(chs, st)
          [] b = "weight_end" -> parse_weight_end(chs, input_len, st)
          [] b = "brace_open" -> parse_brace_open(chs, st)
          [] b = "brace_close" -> parse_brace_close(chs, st)
          [] b = "bracket_open" -> parse_bracket_open(chs, st)
          [] b = "bracket_close" -> parse_bracket_close(chs, st)
          [] b = "comma" -> parse_comma(chs, st)
          [] b = "whitespace" -> parse_whitespace(chs, st)
          [] b = "snippet_ref" -> parse_snippet_ref(chs, st)
          [] OTHER -> parse_text(chs, st)

\* the loop state at entry to the loop
parse_start ==
    [pos |-> 0, tokens |-> <<>>, brace_depth |-> 0, bracket_depth |-> 0,
     colon_weight |-> None]

\* the ParseResult built after the loop
parse_result(st) ==
    [tokens |-> st.tokens, unclosed_braces |-> st.brace_depth,
     unclosed_brackets |-> st.bracket_depth,
     unclosed_weight |-> is_some(st.colon_weight)]

RECURSIVE parse_loop(_, _, _)
\* the whole loop.  An iteration that leaves the loop state as it found it
\* repeats forever: the call does not return, which is the value
\* [diverges |-> TRUE].
parse_loop(chs, input_len, st) ==
    IF st.pos < Len(chs)
    THEN LET next == parse_iteration(chs, input_len, st)
         IN  IF next = st THEN [diverges |-> TRUE]
             ELSE parse_loop(chs, input_len, next)
    ELSE [diverges |-> FALSE, value |-> parse_result(st)]

\* PromptParser::parse as a function of its input
parse(s) == parse_loop(char_indices(s), str_len(s), parse_start)

-----------------------------------------------------------------------------
(* PromptParser::format *)

\* the state of the formatting loop before its first token
format_start == [output |-> <<>>, consecutive_newlines |-> 0, prev_token |-> None]

prev_is_comma(fs) == is_some(fs.prev_token) /\ unwrap(fs.prev_token).type = "Comma"

\* the match arm of one token
format_arm(fs, token) ==
    LET out == fs.output
        reset(o) == [fs EXCEPT !.output = o, !.consecutive_newlines = 0]
    IN  CASE token.type = "Newline" ->
               [fs EXCEPT !.consecutive_newlines = @ + 1,
                          !.output = IF fs.consecutive_newlines + 1 <= 2
                                     THEN Append(out, "\n") ELSE out]
          [] token.type = "Comma" -> reset(Append(out, ","))
          [] token.type = "Whitespace" ->
               LET o1 == IF prev_is_comma(fs) /\ ~starts_with(token.value, " ")
                         THEN Append(out, " ") ELSE out
                   o2 == IF fs.consecutive_newlines > 0
                         THEN o1 \o token.value ELSE Append(o1, " ")
               IN  reset(o2)
          [] token.type = "WeightEnd" ->
               LET o1 == IF ~ends_with(out, " ") /\ ~ends_with(out, "\n")
                         THEN Append(out, " ") ELSE out
               IN  reset(o1 \o <<":", ":">>)
          [] token.type = "Text" ->
               LET o1 == IF prev_is_comma(fs) /\ ~ends_with(out, " ")
                         THEN Append(out, " ") ELSE out
               IN  reset(o1 \o token.value)
          [] token.type = "BraceOpen" -> reset(Append(out, "{"))
          [] token.type = "BraceClose" -> reset(Append(out, "}"))
          [] token.type = "BracketOpen" -> reset(Append(out, "["))
          [] token.type = "BracketClose" -> reset(Append(out, "]"))
          [] token.type = "WeightStart" ->
               reset(out \o format_weight_value(token.value) \o <<":", ":">>)
          [] token.type = "SnippetRef" ->
               LET o1 == IF prev_is_comma(fs) /\ ~ends_with(out, " ")
                         THEN Append(out, " ") ELSE out
               IN  reset(o1 \o SnippetPrefix \o token.name \o <<">">>)
          [] token.type = "Comment" ->
               reset(out \o <<"/", "/">> \o token.value \o <<"/", "/">>)

\* one turn of `for token in &result.tokens`
format_token(fs, token) == [format_arm(fs, token) EXCEPT !.prev_token = Some(token)]

RECURSIVE format_loop(_, _)
format_loop(fs, toks) ==
    IF Len(toks) = 0 THEN fs ELSE format_loop(format_token(fs, Head(toks)), Tail(toks))

\* the output built from the token list of a returned parse
format_tokens(toks) == format_loop(format_start, toks).output

\* PromptParser::format as a function of its input; it returns only if its
\* call of parse does
format(s) ==
    LET r == parse(s)
    IN  IF r.diverges THEN [diverges |-> TRUE]
        ELSE [diverges |-> FALSE, value |-> format_tokens(r.value.tokens)]

-----------------------------------------------------------------------------
(* preset.rs: is_blank and the four apply functions                         *)
(* A rule is the record of the six Option<String> fields.                   *)

\* is_blank testing is_empty() without the trim
is_blank_no_trim(o) == IF ~is_some(o) THEN TRUE ELSE Len(unwrap(o)) = 0

is_blank(o) == IF ~is_some(o) THEN TRUE ELSE Len(trim(unwrap(o))) = 0

\* CharacterPreset::apply_uc
apply_uc(p, raw_uc) ==
    IF ~is_blank(p.uc_replace) THEN unwrap(p.uc_replace)
    ELSE LET sep(r) == IF Len(r) # 0 /\ ~ends_with(r, " ") /\ ~ends_with(r, ",")
                       THEN r \o <<",", " ">> ELSE r
             r1 == IF ~is_blank(p.uc_before) THEN sep(trim(unwrap(p.uc_before))) ELSE <<>>
             r2 == r1 \o raw_uc
         IN  IF ~is_blank(p.uc_after) THEN sep(r2) \o trim(unwrap(p.uc_after)) ELSE r2

\* CharacterPreset::apply joining with ", " as apply_uc does
apply_comma_joined(p, raw_prompt) ==
    IF ~is_blank(p.replace) THEN unwrap(p.replace)
    ELSE LET sep(r) == IF Len(r) # 0 /\ ~ends_with(r, " ") /\ ~ends_with(r, ",")
                       THEN r \o <<",", " ">> ELSE r
             r1 == IF ~is_blank(p.before) THEN sep(trim(unwrap(p.before))) ELSE <<>>
             r2 == r1 \o raw_prompt
         IN  IF ~is_blank(p.after) THEN sep(r2) \o trim(unwrap(p.after)) ELSE r2

\* CharacterPreset::apply
apply(p, raw_prompt) ==
    IF ~is_blank(p.replace) THEN unwrap(p.replace)
    ELSE LET sep(r) == IF Len(r) # 0 /\ ~ends_with(r, " ") THEN Append(r, " ") ELSE r
             r1 == IF ~is_blank(p.before) THEN sep(trim(unwrap(p.before))) ELSE <<>>
             r2 == r1 \o raw_prompt
         IN  IF ~is_blank(p.after) THEN sep(r2) \o trim(unwrap(p.after)) ELSE r2

\* MainPresetSettings::apply_positive testing ends_with(',') on the untrimmed
\* result
apply_positive_untrimmed(p, raw_prompt) ==
    IF ~is_blank(p.replace) THEN unwrap(p.replace)
    ELSE LET sep(r) == IF Len(r) # 0 /\ ~ends_with(r, ",")
                       THEN r \o <<",", " ">> ELSE r
             r1 == IF ~is_blank(p.before) THEN sep(trim(unwrap(p.before))) ELSE <<>>
             r2 == r1 \o raw_prompt
         IN  IF ~is_blank(p.after) THEN sep(r2) \o trim(unwrap(p.after)) ELSE r2

\* MainPresetSettings::apply_positive
apply_positive(p, raw_prompt) ==
    IF ~is_blank(p.replace) THEN unwrap(p.replace)
    ELSE LET sep(r) == IF Len(r) # 0 /\ ~ends_with(trim(r), ",")
                       THEN r \o <<",", " ">> ELSE r
             r1 == IF ~is_blank(p.before) THEN sep(trim(unwrap(p.before))) ELSE <<>>
             r2 == r1 \o raw_prompt
         IN  IF ~is_blank(p.after) THEN sep(r2) \o trim(unwrap(p.after)) ELSE r2

\* apply_negative pushing the raw text trimmed
apply_negative_trimmed_raw(p, raw_uc) ==
    IF ~is_blank(p.uc_replace) THEN unwrap(p.uc_replace)
    ELSE LET sep(r) == IF Len(r) # 0 /\ ~ends_with(trim(r), ",")
                       THEN r \o <<",", " ">> ELSE r
             r1 == IF ~is_blank(p.uc_before) THEN sep(trim(unwrap(p.uc_before))) ELSE <<>>
             r2 == r1 \o trim(raw_uc)
         IN  IF ~is_blank(p.uc_after) THEN sep(r2) \o trim(unwrap(p.uc_after)) ELSE r2

\* MainPresetSettings::apply_negative
apply_negative(p, raw_uc) ==
    IF ~is_blank(p.uc_replace) THEN unwrap(p.uc_replace)
    ELSE LET sep(r) == IF Len(r) # 0 /\ ~ends_with(trim(r), ",")
                       THEN r \o <<",", " ">> ELSE r
             r1 == IF ~is_blank(p.uc_before) THEN sep(trim(unwrap(p.uc_before))) ELSE <<>>
             r2 == r1 \o raw_uc
         IN  IF ~is_blank(p.uc_after) THEN sep(r2) \o trim(unwrap(p.uc_after)) ELSE r2

-----------------------------------------------------------------------------
(* core/src/lib.rs: CoreStorage, the snippet operations                     *)
(* A table is a function from its keys to its values.  The storage is the   *)
(* record st = [snippets, name_index, presets, main_presets, settings,      *)
(* records].  A Snippet is [id, name, content], a stored CharacterPreset is  *)
(* its id and its six rule fields; the fields no operation here reads       *)
(* (category, tags, description, preview_path, timestamps) are left out,    *)
(* and upsert_snippet                                                       *)
(* is called without preview bytes.  A CoreResult is [ok |-> TRUE, value]   *)
(* or [ok |-> FALSE, err].                                                  *)

Ok(v) == [ok |-> TRUE, value |-> v]

Err(e) == [ok |-> FALSE, err |-> e]

\* Table::get
table_get(t, k) == IF k \in DOMAIN t THEN Some(t[k]) ELSE None

\* Table::insert
table_insert(t, k, v) == [x \in (DOMAIN t) \cup {k} |-> IF x = k THEN v ELSE t[x]]

\* Table::remove
table_remove(t, k) == [x \in (DOMAIN t) \ {k} |-> t[x]]

\* str::contains(&str)
contains(s, pat) ==
    \E i \in 1..(Len(s) - Len(pat) + 1) : SubSeq(s, i, i + Len(pat) - 1) = pat

RECURSIVE str_replace(_, _, _)
\* str::replace: every non-overlapping match of from, left to right
str_replace(s, from, to) ==
    IF Len(s) = 0 THEN <<>>
    ELSE IF Len(s) >= Len(from) /\ SubSeq(s, 1, Len(from)) = from
         THEN to \o str_replace(SubSeq(s, Len(from) + 1, Len(s)), from, to)
         ELSE <<Head(s)>> \o str_replace(Tail(s), from, to)

\* str::strip_prefix
strip_prefix(s, prefix) ==
    IF Len(s) >= Len(prefix) /\ SubSeq(s, 1, Len(prefix)) = prefix
    THEN Some(SubSeq(s, Len(prefix) + 1, Len(s)))
    ELSE None

\* the characters validate_snippet_name refuses
InvalidNameChars == {"<", ">", ",", " ", "{", "}", "(", ")", "[", "]"}

\* validate_snippet_name refusing the empty name only
validate_snippet_name_nonempty(name) ==
    IF Len(name) = 0 THEN Err([kind |-> "invalid snippet name"]) ELSE Ok(<<>>)

validate_snippet_name(name) ==
    IF (\E i \in 1..Len(name) : name[i] \in InvalidNameChars) \/ Len(name) = 0
    THEN Err([kind |-> "invalid snippet name"])
    ELSE Ok(<<>>)

\* CoreStorage::get_snippet
get_snippet(st, id) == table_get(st.snippets, id)

\* CoreStorage::get_preset
get_preset(st, id) == table_get(st.presets, id)

\* CoreStorage::get_snippet_by_name answering a missing name with an empty
\* snippet
get_snippet_by_name_or_empty(st, name) ==
    LET id == table_get(st.name_index, name)
    IN  IF is_some(id) /\ is_some(table_get(st.snippets, unwrap(id)))
        THEN table_get(st.snippets, unwrap(id))
        ELSE Some([id |-> 0, name |-> name, content |-> <<>>])

\* CoreStorage::get_snippet_by_name
get_snippet_by_name(st, name) ==
    LET id == table_get(st.name_index, name)
    IN  IF is_some(id) THEN table_get(st.snippets, unwrap(id)) ELSE None

\* Snippet::new; the fresh id is the caller's choice of a Uuid
snippet_new(id, name, content) ==
    IF ~validate_snippet_name(name).ok THEN validate_snippet_name(name)
    ELSE Ok([id |-> id, name |-> name, content |-> content])

\* CoreStorage::upsert_snippet: the result and the storage it leaves
upsert_snippet(st, snippet) ==
    IF ~validate_snippet_name(snippet.name).ok
    THEN [result |-> validate_snippet_name(snippet.name), storage |-> st]
    ELSE LET old == table_get(st.snippets, snippet.id)
             old_name == IF is_some(old) THEN Some(unwrap(old).name) ELSE None
             existing == table_get(st.name_index, snippet.name)
             table == table_insert(st.snippets, snippet.id, snippet)
             index1 == IF is_some(old_name) /\ unwrap(old_name) # snippet.name
                       THEN table_remove(st.name_index, unwrap(old_name))
                       ELSE st.name_index
             index == table_insert(index1, snippet.name, snippet.id)
         IN  IF is_some(existing) /\ unwrap(existing) # snippet.id
             THEN \* the write transaction is dropped uncommitted
                  [result |-> Err([kind |-> "snippet name already exists"]),
                   storage |-> st]
             ELSE [result |-> Ok(snippet),
                   storage |-> [st EXCEPT !.snippets = table, !.name_index = index]]

\* "<snippet:NAME>"
snippet_tag(name) == SnippetPrefix \o name \o <<">">>

\* one Option<String> field of a preset in update_snippet_references
replace_field(field, old_tag, new_tag) ==
    IF is_some(field) /\ contains(unwrap(field), old_tag)
    THEN Some(str_replace(unwrap(field), old_tag, new_tag))
    ELSE field

\* one String field of the settings in update_snippet_references
replace_string(s, old_tag, new_tag) ==
    IF contains(s, old_tag) THEN str_replace(s, old_tag, new_tag) ELSE s

\* one stored preset after update_snippet_references
replace_in_preset(p, old_tag, new_tag) ==
    [p EXCEPT !.before = replace_field(@, old_tag, new_tag),
              !.after = replace_field(@, old_tag, new_tag),
              !.replace = replace_field(@, old_tag, new_tag),
              !.uc_before = replace_field(@, old_tag, new_tag),
              !.uc_after = replace_field(@, old_tag, new_tag),
              !.uc_replace = replace_field(@, old_tag, new_tag)]

\* the settings after update_snippet_references
replace_in_settings(s, old_tag, new_tag) ==
    [prompt |-> replace_string(s.prompt, old_tag, new_tag),
     negative_prompt |-> replace_string(s.negative_prompt, old_tag, new_tag),
     character_slots |->
         [i \in 1..Len(s.character_slots) |->
             [s.character_slots[i] EXCEPT
                 !.prompt = replace_string(@, old_tag, new_tag),
                 !.uc = replace_string(@, old_tag, new_tag)]]]

\* CoreStorage::update_snippet_references: (updated_presets,
\* updated_settings) and the storage it leaves
update_snippet_references(st, old_name, new_name) ==
    LET old_tag == snippet_tag(old_name)
        new_tag == snippet_tag(new_name)
        changed == { id \in DOMAIN st.presets :
                       replace_in_preset(st.presets[id], old_tag, new_tag)
                           # st.presets[id] }
        table == [id \in DOMAIN st.presets |->
                     replace_in_preset(st.presets[id], old_tag, new_tag)]
        updated == IF is_some(st.settings)
                   THEN replace_in_settings(unwrap(st.settings), old_tag, new_tag)
                   ELSE <<>>
        settings_changed == is_some(st.settings) /\ updated # unwrap(st.settings)
    IN  [updated_presets |-> Cardinality(changed),
         updated_settings |-> settings_changed,
         storage |-> [st EXCEPT !.presets = table,
                                !.settings = IF settings_changed
                                             THEN Some(updated) ELSE @]]

\* CoreStorage::rename_snippet: the result and the storage it leaves
rename_snippet(st, id, new_name) ==
    IF ~validate_snippet_name(new_name).ok
    THEN [result |-> validate_snippet_name(new_name), storage |-> st]
    ELSE IF ~is_some(get_snippet(st, id))
    THEN [result |-> Err([kind |-> "snippet not found"]), storage |-> st]
    ELSE LET old == unwrap(get_snippet(st, id))
             old_name == old.name
             snippet == [old EXCEPT !.name = new_name]
             existing == table_get(st.name_index, new_name)
             table == table_insert(st.snippets, id, snippet)
             index == table_insert(table_remove(st.name_index, old_name),
                                   new_name, id)
             renamed == [st EXCEPT !.snippets = table, !.name_index = index]
             refs == update_snippet_references(renamed, old_name, new_name)
         IN  IF old_name = new_name
             THEN [result |-> Ok([snippet |-> old, updated_presets |-> 0,
                                  updated_settings |-> FALSE]),
                   storage |-> st]
             ELSE IF is_some(existing) /\ unwrap(existing) # id
             THEN [result |-> Err([kind |-> "snippet name already exists"]),
                   storage |-> st]
             ELSE [result |-> Ok([snippet |-> snippet,
                                  updated_presets |-> refs.updated_presets,
                                  updated_settings |-> refs.updated_settings]),
                   storage |-> refs.storage]

-----------------------------------------------------------------------------
(* core/src/lib.rs: upsert_snippet, rename_snippet and delete_snippet as    *)
(* the steps concurrent callers interleave: the read transaction, then the  *)
(* write transaction working on what the read returned.  The database runs  *)
(* one write transaction at a time, so a write transaction is one step.     *)

\* the read transaction: the snippet stored under id, if any
snippet_read(st, id) == table_get(st.snippets, id)

\* upsert_snippet from begin_write on, old being what the read returned
upsert_snippet_write(st, snippet, old) ==
    LET old_name == IF is_some(old) THEN Some(unwrap(old).name) ELSE None
        existing == table_get(st.name_index, snippet.name)
        table == table_insert(st.snippets, snippet.id, snippet)
        index1 == IF is_some(old_name) /\ unwrap(old_name) # snippet.name
                  THEN table_remove(st.name_index, unwrap(old_name))
                  ELSE st.name_index
        index == table_insert(index1, snippet.name, snippet.id)
    IN  IF is_some(existing) /\ unwrap(existing) # snippet.id
        THEN [result |-> Err([kind |-> "snippet name already exists"]),
              storage |-> st]
        ELSE [result |-> Ok(snippet),
              storage |-> [st EXCEPT !.snippets = table, !.name_index = index]]

\* rename_snippet from begin_write to commit, old being the snippet the
\* read returned
rename_snippet_write(st, old, new_name) ==
    LET snippet == [old EXCEPT !.name = new_name]
        existing == table_get(st.name_index, new_name)
    IN  IF is_some(existing) /\ unwrap(existing) # snippet.id
        THEN [result |-> Err([kind |-> "snippet name already exists"]),
              storage |-> st]
        ELSE [result |-> Ok(snippet),
              storage |->
                  [st EXCEPT !.snippets = table_insert(@, snippet.id, snippet),
                             !.name_index =
                                 table_insert(table_remove(@, old.name),
                                              new_name, snippet.id)]]

\* delete_snippet from begin_write on, old being the snippet the read
\* returned
delete_snippet_write(st, old) ==
    [result |-> Ok(TRUE),
     storage |-> [st EXCEPT !.snippets = table_remove(@, old.id),
                            !.name_index = table_remove(@, old.name)]]

-----------------------------------------------------------------------------
(* core/src/lib.rs: SnippetResolver::expand                                 *)
(* The result carries, besides the CoreResult, the names the call looked up *)
(* in the storage, in order.                                                *)

RECURSIVE token_end(_, _)
\* the index of the first '>' at or after i, Len(chs) + 1 when there is none
token_end(chs, i) ==
    IF i > Len(chs) \/ chs[i] = ">" THEN i ELSE token_end(chs, i + 1)

\* the unknown token put back without its delimiters
keep_literal_bare(out, token) == out \o token

\* the unknown token kept literal
keep_literal(out, token) == out \o <<"<">> \o token \o <<">">>

SnippetTokenPrefix == <<"s", "n", "i", "p", "p", "e", "t", ":">>

RECURSIVE expand_loop(_, _, _, _, _)
\* the while loop of expand from the character at index i on
expand_loop(st, chs, i, out, looked) ==
    IF i > Len(chs) THEN [ok |-> TRUE, value |-> out, lookups |-> looked]
    ELSE IF chs[i] = "<"
    THEN LET j == token_end(chs, i + 1)
             token == SubSeq(chs, i + 1, j - 1)
             next == IF j > Len(chs) THEN j ELSE j + 1
             rest == strip_prefix(token, SnippetTokenPrefix)
         IN  IF is_some(rest)
             THEN IF ~validate_snippet_name(unwrap(rest)).ok
                  THEN [ok |-> FALSE, err |-> validate_snippet_name(unwrap(rest)).err,
                        lookups |-> looked]
                  ELSE LET snippet == get_snippet_by_name(st, unwrap(rest))
                       IN  IF ~is_some(snippet)
                           THEN [ok |-> FALSE,
                                 err |-> [kind |-> "snippet not found",
                                          name |-> unwrap(rest)],
                                 lookups |-> Append(looked, unwrap(rest))]
                           ELSE expand_loop(st, chs, next,
                                            out \o unwrap(snippet).content,
                                            Append(looked, unwrap(rest)))
             ELSE expand_loop(st, chs, next, keep_literal(out, token), looked)
    ELSE expand_loop(st, chs, i + 1, Append(out, chs[i]), looked)

\* expand passing over its output a second time
expand_twice(st, prompt) ==
    LET first == expand_loop(st, prompt, 1, <<>>, <<>>)
        second == expand_loop(st, first.value, 1, <<>>, first.lookups)
    IN  IF first.ok THEN second ELSE first

\* SnippetResolver::expand
expand(st, prompt) == expand_loop(st, prompt, 1, <<>>, <<>>)

-----------------------------------------------------------------------------
(* core/src/lib.rs: PromptProcessor::dry_run / process_task and the prompt  *)
(* processing of TaskExecutor::execute                                      *)
(* Every outcome carries the names looked up in the storage, in order.      *)

RECURSIVE expand_each(_, _, _, _, _)
\* resolver.expand(..)? on the texts one after the other, from the i-th on
expand_each(st, texts, i, done, looked) ==
    IF i > Len(texts) THEN [ok |-> TRUE, values |-> done, lookups |-> looked]
    ELSE LET r == expand(st, texts[i])
         IN  IF r.ok
             THEN expand_each(st, texts, i + 1, Append(done, r.value),
                              looked \o r.lookups)
             ELSE [ok |-> FALSE, err |-> r.err, lookups |-> looked \o r.lookups]

\* steps 1 and 2 with the two stages exchanged: expand, then the main preset
main_prompts_expand_first(st, main_preset, raw_positive, raw_negative) ==
    LET r == expand_each(st, <<raw_positive, raw_negative>>, 1, <<>>, <<>>)
    IN  IF r.ok
        THEN [ok |-> TRUE, lookups |-> r.lookups,
              positive_after_preset |-> r.values[1],
              negative_after_preset |-> r.values[2],
              final_positive |-> apply_positive(main_preset, r.values[1]),
              final_negative |-> apply_negative(main_preset, r.values[2])]
        ELSE r

\* steps 1 and 2 of the three entry points: the main preset, then expand
main_prompts(st, main_preset, raw_positive, raw_negative) ==
    LET positive_after_preset == apply_positive(main_preset, raw_positive)
        negative_after_preset == apply_negative(main_preset, raw_negative)
        r == expand_each(st, <<positive_after_preset, negative_after_preset>>,
                         1, <<>>, <<>>)
    IN  IF r.ok
        THEN [ok |-> TRUE, lookups |-> r.lookups,
              positive_after_preset |-> positive_after_preset,
              negative_after_preset |-> negative_after_preset,
              final_positive |-> r.values[1], final_negative |-> r.values[2]]
        ELSE r

\* dry_run keeping the disabled slots
slot_skipped_blank_only(slot) ==
    Len(trim(slot.prompt)) = 0 /\ ~is_some(slot.preset_id)

\* dry_run: the slot is skipped
slot_skipped(slot) ==
    \/ ~slot.enabled
    \/ Len(trim(slot.prompt)) = 0 /\ ~is_some(slot.preset_id)

RECURSIVE dry_run_slots(_, _, _, _, _, _)
\* step 3 of dry_run from the i-th slot on; preset_looked are the ids
\* get_preset was called with
dry_run_slots(st, slots, i, processed, looked, preset_looked) ==
    IF i > Len(slots)
    THEN [ok |-> TRUE, value |-> processed, lookups |-> looked,
          preset_lookups |-> preset_looked]
    ELSE IF slot_skipped(slots[i])
    THEN dry_run_slots(st, slots, i + 1, processed, looked, preset_looked)
    ELSE LET slot == slots[i]
             found == IF is_some(slot.preset_id)
                      THEN get_preset(st, unwrap(slot.preset_id)) ELSE None
             asked == IF is_some(slot.preset_id)
                      THEN Append(preset_looked, unwrap(slot.preset_id))
                      ELSE preset_looked
             char_positive == IF is_some(found)
                              THEN apply(unwrap(found), slot.prompt) ELSE slot.prompt
             char_negative == IF is_some(found)
                              THEN apply_uc(unwrap(found), slot.uc) ELSE slot.uc
             r == expand_each(st, <<char_positive, char_negative>>, 1, <<>>, looked)
         IN  IF ~r.ok
             THEN [ok |-> FALSE, err |-> r.err, lookups |-> r.lookups,
                   preset_lookups |-> asked]
             ELSE dry_run_slots(st, slots, i + 1,
                      Append(processed,
                             [after_preset |-> char_positive,
                              final_prompt |-> r.values[1],
                              uc_after_preset |-> char_negative,
                              final_uc |-> r.values[2],
                              enabled |-> TRUE]),
                      r.lookups, asked)

\* PromptProcessor::dry_run
dry_run(st, raw_positive, raw_negative, main_preset, character_slots) ==
    LET mains == main_prompts(st, main_preset, raw_positive, raw_negative)
        kept == dry_run_slots(st, character_slots, 1, <<>>, mains.lookups, <<>>)
    IN  IF ~mains.ok
        THEN [result |-> Err(mains.err), lookups |-> mains.lookups,
              preset_lookups |-> <<>>]
        ELSE IF ~kept.ok
        THEN [result |-> Err(kept.err), lookups |-> kept.lookups,
              preset_lookups |-> kept.preset_lookups]
        ELSE [result |-> Ok([raw_positive |-> raw_positive,
                             positive_after_preset |-> mains.positive_after_preset,
                             final_positive |-> mains.final_positive,
                             raw_negative |-> raw_negative,
                             negative_after_preset |-> mains.negative_after_preset,
                             final_negative |-> mains.final_negative,
                             character_prompts |-> kept.value]),
              lookups |-> kept.lookups,
              preset_lookups |-> kept.preset_lookups]

RECURSIVE expand_character_prompts(_, _, _, _)
\* step 3 of process_task and of execute from the i-th character prompt
\* on: prompt and uc are overwritten with their expansions, in this order
expand_character_prompts(st, cps, i, looked) ==
    IF i > Len(cps) THEN [ok |-> TRUE, value |-> cps, lookups |-> looked]
    ELSE LET p == expand(st, cps[i].prompt)
             with_prompt == [cps EXCEPT ![i].prompt = p.value]
             u == expand(st, cps[i].uc)
         IN  IF ~p.ok
             THEN [ok |-> FALSE, err |-> p.err, value |-> cps,
                   lookups |-> looked \o p.lookups]
             ELSE IF ~u.ok
             THEN [ok |-> FALSE, err |-> u.err, value |-> with_prompt,
                   lookups |-> looked \o p.lookups \o u.lookups]
             ELSE expand_character_prompts(st,
                      [with_prompt EXCEPT ![i].uc = u.value], i + 1,
                      looked \o p.lookups \o u.lookups)

\* PromptProcessor::process_task: the result and the task it leaves
process_task(st, t) ==
    LET mains == main_prompts(st, t.main_preset, t.raw_prompt, t.negative_prompt)
        expanded == IF is_some(t.params.character_prompts)
               THEN expand_character_prompts(st, unwrap(t.params.character_prompts),
                                             1, mains.lookups)
               ELSE [ok |-> TRUE, value |-> <<>>, lookups |-> mains.lookups]
        left == IF is_some(t.params.character_prompts)
                THEN [t EXCEPT !.params.character_prompts = Some(expanded.value)]
                ELSE t
    IN  IF ~mains.ok
        THEN [result |-> Err(mains.err), task |-> t, lookups |-> mains.lookups]
        ELSE IF ~expanded.ok
        THEN [result |-> Err(expanded.err), task |-> left, lookups |-> expanded.lookups]
        ELSE [result |-> Ok(<<mains.final_positive, mains.final_negative>>),
              task |-> left, lookups |-> expanded.lookups]

\* TaskExecutor::execute, the closure given to spawn_blocking: it works on
\* clones, so an error leaves the task as it was
execute_process(st, t) ==
    LET mains == main_prompts(st, t.main_preset, t.raw_prompt, t.negative_prompt)
        expanded == IF is_some(t.params.character_prompts)
               THEN expand_character_prompts(st, unwrap(t.params.character_prompts),
                                             1, mains.lookups)
               ELSE [ok |-> TRUE, value |-> <<>>, lookups |-> mains.lookups]
    IN  IF ~mains.ok THEN [ok |-> FALSE, err |-> mains.err, lookups |-> mains.lookups]
        ELSE IF ~expanded.ok THEN [ok |-> FALSE, err |-> expanded.err, lookups |-> expanded.lookups]
        ELSE [ok |-> TRUE, lookups |-> expanded.lookups,
              expanded_prompt |-> mains.final_positive,
              expanded_negative |-> mains.final_negative,
              expanded_character_prompts |->
                  IF is_some(t.params.character_prompts)
                  THEN Some(expanded.value) ELSE None]

\* to_nai_request: the fields of the ImageGenerationRequest that hold prompt
\* text
to_nai_request(t, prompt, negative) ==
    [prompt_positive |-> prompt, prompt_negative |-> negative,
     character_prompts |-> t.params.character_prompts]

-----------------------------------------------------------------------------
(* Inputs *)

\* the fragments prompts are put together from: the characters the parser
\* treats specially, a three-byte character, and the multi-character
\* delimiters
Pieces ==
    { <<c>> : c \in {"han", "/", "\n", "\r", "1", ".", "-", "{", "}", "[", "]",
                     ",", " ", "\t", ">"} }
    \cup { SnippetPrefix, <<":", ":">>, <<"/", "/">> }

\* the fragments of the prompts that nest emphasis and weight scopes
WeightPieces ==
    { <<"{">>, <<"}">>, <<"[">>, <<"]">>, <<"han">>, <<":", ":">>,
      <<"1", ":", ":">>, <<".", "1", ":", ":">> }

RECURSIVE PieceStrings(_, _)
\* the concatenations of at most n pieces
PieceStrings(pieces, n) ==
    IF n = 0 THEN { <<>> }
    ELSE LET shorter == PieceStrings(pieces, n - 1)
         IN  shorter \cup { s \o q : s \in shorter, q \in pieces }

Inputs == PieceStrings(Pieces, MaxPieces)

WeightInputs == PieceStrings(WeightPieces, MaxWeightPieces)

\* the fragments of the prompts that put comments next to open scopes: two
\* closed comments with syntax inside, scope openers, a character, and a
\* snippet reference with a `//` pair in its name
CommentPieces ==
    { <<"/", "/", "{", ":", ":", ",", "/", "/">>, <<"/", "/", "/", "c", "/", "/">>,
      <<"1", ":", ":">>, <<"{">>, <<"[">>, <<"han">>,
      SnippetPrefix \o <<"/", "/", "c", "/", "/", ">">> }

CommentInputs == PieceStrings(CommentPieces, MaxCommentPieces)

-----------------------------------------------------------------------------
(* The parser calls: parse, format, strip_comments, find_comments *)

\* the call does not use the storage: the tables are empty
NoStorage ==
    /\ snippets = <<>>
    /\ name_index = <<>>
    /\ presets = <<>>
    /\ main_presets = <<>>
    /\ settings = None
    /\ records = <<>>

\* the call is not a processor call
NoProcessor ==
    /\ lookups = <<>>
    /\ task = <<>>
    /\ locals = <<>>
    /\ client = <<>>

\* the call does not use the TaskQueue
NoQueue ==
    /\ statuses = <<>>
    /\ channel = <<>>
    /\ received = 0

\* the loop state of parse held in the variables
loop_state ==
    [pos |-> pos, tokens |-> tokens, brace_depth |-> brace_depth,
     bracket_depth |-> bracket_depth, colon_weight |-> colon_weight]

Init ==
    /\ \/ call \in {"parse", "format", "strip_comments"} /\ input \in Inputs
       \/ call = "parse" /\ input \in WeightInputs \cup CommentInputs
       \/ call = "find_comments" /\ input \in Inputs \cup CommentInputs
    /\ pc = IF call \in {"strip_comments", "find_comments"} THEN "call" ELSE "loop"
    /\ chars = IF call \in {"strip_comments", "find_comments"} THEN <<>>
               ELSE char_indices(input)
    /\ pos = parse_start.pos
    /\ tokens = parse_start.tokens
    /\ brace_depth = parse_start.brace_depth
    /\ bracket_depth = parse_start.bracket_depth
    /\ colon_weight = parse_start.colon_weight
    /\ iterations = 0
    /\ result = <<>>
    /\ preset = <<>>
    /\ NoStorage
    /\ NoProcessor
    /\ NoQueue

\* the loop of parse is at the head of an iteration.  An iteration that
\* moves pos moves it forward, so iterations <= pos until an iteration leaves
\* pos where it was; the loop is followed up to the first such iteration,
\* which every further iteration repeats.
AtLoopHead ==
    /\ pc = "loop"
    /\ pos < Len(chars)
    /\ iterations <= pos

\* the loop body has run once and left the loop state next
LoopBody(next) ==
    /\ pos' = next.pos
    /\ tokens' = next.tokens
    /\ brace_depth' = next.brace_depth
    /\ bracket_depth' = next.bracket_depth
    /\ colon_weight' = next.colon_weight
    /\ iterations' = iterations + 1
    /\ UNCHANGED <<call, input, pc, chars, result, preset, storage_vars,
                   processor_vars, queue_vars>>

\* one iteration of the main loop, by the branch it takes
ParseComment ==
    /\ AtLoopHead
    /\ parse_branch(chars, loop_state) = "comment"
    /\ LoopBody(parse_comment(chars, loop_state))

ParseNewline ==
    /\ AtLoopHead
    /\ parse_branch(chars, loop_state) = "newline"
    /\ LoopBody(parse_newline(chars, loop_state))

ParseCarriageReturn ==
    /\ AtLoopHead
    /\ parse_branch(chars, loop_state) = "carriage_return"
    /\ LoopBody(parse_carriage_return(chars, loop_state))

ParseWeightStart ==
    /\ AtLoopHead
    /\ parse_branch(chars, loop_state) = "weight_start"
    /\ LoopBody(parse_weight_start(chars, loop_state))

ParseWeightEnd ==
    /\ AtLoopHead
    /\ parse_branch(chars, loop_state) = "weight_end"
    /\ LoopBody(parse_weight_end(chars, str_len(input), loop_state))

ParseBraceOpen ==
    /\ AtLoopHead
    /\ parse_branch(chars, loop_state) = "brace_open"
    /\ LoopBody(parse_brace_open(chars, loop_state))

ParseBraceClose ==
    /\ AtLoopHead
    /\ parse_branch(chars, loop_state) = "brace_close"
    /\ LoopBody(parse_brace_close(chars, loop_state))

ParseBracketOpen ==
    /\ AtLoopHead
    /\ parse_branch(chars, loop_state) = "bracket_open"
    /\ LoopBody(parse_bracket_open(chars, loop_state))

ParseBracketClose ==
    /\ AtLoopHead
    /\ parse_branch(chars, loop_state) = "bracket_close"
    /\ LoopBody(parse_bracket_close(chars, loop_state))

ParseComma ==
    /\ AtLoopHead
    /\ parse_branch(chars, loop_state) = "comma"
    /\ LoopBody(parse_comma(chars, loop_state))

ParseWhitespace ==
    /\ AtLoopHead
    /\ parse_branch(chars, loop_state) = "whitespace"
    /\ LoopBody(parse_whitespace(chars, loop_state))

ParseSnippetRef ==
    /\ AtLoopHead
    /\ parse_branch(chars, loop_state) = "snippet_ref"
    /\ LoopBody(parse_snippet_ref(chars, loop_state))

ParseText ==
    /\ AtLoopHead
    /\ parse_branch(chars, loop_state) = "text"
    /\ LoopBody(parse_text(chars, loop_state))

ParseStep ==
    \/ ParseComment \/ ParseNewline \/ ParseCarriageReturn
    \/ ParseWeightStart \/ ParseWeightEnd
    \/ ParseBraceOpen \/ ParseBraceClose \/ ParseBracketOpen \/ ParseBracketClose
    \/ ParseComma \/ ParseWhitespace \/ ParseSnippetRef \/ ParseText

\* parse leaves its loop and returns the ParseResult
ParseReturn ==
    /\ call = "parse"
    /\ pc = "loop"
    /\ pos >= Len(chars)
    /\ pc' = "returned"
    /\ result' = parse_result(loop_state)
    /\ UNCHANGED <<call, input, chars, pos, tokens, brace_depth, bracket_depth,
                   colon_weight, iterations, preset, queue_vars, storage_vars,
                   processor_vars>>

\* format, once its call of parse has returned, runs its loop over the
\* tokens and returns the output
FormatReturn ==
    /\ call = "format"
    /\ pc = "loop"
    /\ pos >= Len(chars)
    /\ pc' = "returned"
    /\ result' = format_tokens(parse_result(loop_state).tokens)
    /\ UNCHANGED <<call, input, chars, pos, tokens, brace_depth, bracket_depth,
                   colon_weight, iterations, preset, queue_vars, storage_vars,
                   processor_vars>>

StripComments ==
    /\ call = "strip_comments"
    /\ pc = "call"
    /\ pc' = "returned"
    /\ result' = strip_comments(input)
    /\ UNCHANGED <<call, input, chars, pos, tokens, brace_depth, bracket_depth,
                   colon_weight, iterations, preset, queue_vars, storage_vars,
                   processor_vars>>

FindComments ==
    /\ call = "find_comments"
    /\ pc = "call"
    /\ pc' = "returned"
    /\ result' = find_comments(input)
    /\ UNCHANGED <<call, input, chars, pos, tokens, brace_depth, bracket_depth,
                   colon_weight, iterations, preset, queue_vars, storage_vars,
                   processor_vars>>

Next == ParseStep \/ ParseReturn \/ FormatReturn \/ StripComments \/ FindComments

Spec == Init /\ [][Next]_vars

-----------------------------------------------------------------------------
(* The preset calls: MainPresetSettings::apply_positive / apply_negative,   *)
(* CharacterPreset::apply / apply_uc                                        *)

\* the values of a field the call reads: absent, empty, blank, plain,
\* ending in a comma, padded with whitespace
FieldValues ==
    { None, Some(<<>>), Some(<<" ">>), Some(<<"b">>), Some(<<"b", ",">>),
      Some(<<" ", "b", " ">>) }

\* the values of a field the call does not read
OtherFieldValues == { None, Some(<<"z">>) }

PositiveCalls == {"apply_positive", "apply"}

NegativeCalls == {"apply_negative", "apply_uc"}

\* the rules a call is made on
PresetRules(c) ==
    LET pv == IF c \in PositiveCalls THEN FieldValues ELSE OtherFieldValues
        nv == IF c \in NegativeCalls THEN FieldValues ELSE OtherFieldValues
    IN  [before : pv, after : pv, replace : pv,
         uc_before : nv, uc_after : nv, uc_replace : nv]

RawPrompts == PieceStrings({ <<"x">>, <<",">>, <<" ">> }, MaxRawLen)

InitPreset ==
    /\ call \in PositiveCalls \cup NegativeCalls
    /\ preset \in PresetRules(call)
    /\ input \in RawPrompts
    /\ pc = "call"
    /\ chars = <<>>
    /\ pos = 0
    /\ tokens = <<>>
    /\ brace_depth = 0
    /\ bracket_depth = 0
    /\ colon_weight = None
    /\ iterations = 0
    /\ result = <<>>
    /\ NoStorage
    /\ NoProcessor
    /\ NoQueue

\* the call returns value
PresetReturn(value) ==
    /\ pc' = "returned"
    /\ result' = value
    /\ UNCHANGED <<call, input, chars, pos, tokens, brace_depth, bracket_depth,
                   colon_weight, iterations, preset, queue_vars, storage_vars,
                   processor_vars>>

ApplyPositive ==
    /\ call = "apply_positive"
    /\ pc = "call"
    /\ PresetReturn(apply_positive(preset, input))

ApplyNegative ==
    /\ call = "apply_negative"
    /\ pc = "call"
    /\ PresetReturn(apply_negative(preset, input))

Apply ==
    /\ call = "apply"
    /\ pc = "call"
    /\ PresetReturn(apply(preset, input))

ApplyUc ==
    /\ call = "apply_uc"
    /\ pc = "call"
    /\ PresetReturn(apply_uc(preset, input))

NextPreset == ApplyPositive \/ ApplyNegative \/ Apply \/ ApplyUc

SpecPreset == InitPreset /\ [][NextPreset]_vars

-----------------------------------------------------------------------------
(* The storage calls: SnippetResolver::expand, Snippet::new,                *)
(* CoreStorage::upsert_snippet / rename_snippet                             *)

\* the Uuids
Ids == {1, 2}

\* the names of the stored snippets
SnippetNames == { <<"s">>, <<"t">> }

\* the contents of the stored snippets: plain, empty, a reference
SnippetContents == { <<"a">>, <<>>, snippet_tag(<<"s">>) }

\* the name index of a snippet table
index_of(table) ==
    [n \in { table[i].name : i \in DOMAIN table } |->
        CHOOSE i \in DOMAIN table : table[i].name = n]

\* the snippet tables: every snippet under its id, no two under one name
SnippetTables ==
    UNION { { [i \in D |-> [id |-> i, name |-> f[i][1], content |-> f[i][2]]] :
                f \in { g \in [D -> SnippetNames \X SnippetContents] :
                          \A i, j \in D : g[i][1] = g[j][1] => i = j } } :
            D \in SUBSET Ids }

\* the preset tables: empty, or one preset whose fields hold references
PresetTables ==
    { <<>>,
      [i \in {1} |->
          [id |-> 1, before |-> Some(snippet_tag(<<"s">>)), after |-> None,
           replace |-> None, uc_before |-> None,
           uc_after |-> Some(<<"a">> \o snippet_tag(<<"t">>)),
           uc_replace |-> None]] }

\* the main preset tables: empty, or one main preset whose fields hold
\* references
MainPresetTables ==
    { <<>>,
      [i \in {2} |->
          [id |-> 2, before |-> Some(snippet_tag(<<"s">>) \o <<"a">>),
           after |-> None, replace |-> None, uc_before |-> None,
           uc_after |-> None, uc_replace |-> Some(snippet_tag(<<"t">>))]] }

\* the stored LastGenerationSettings: none, or one holding references
SettingsValues ==
    { None,
      Some([prompt |-> snippet_tag(<<"s">>) \o snippet_tag(<<"s">>),
            negative_prompt |-> <<>>,
            character_slots |->
                << [prompt |-> snippet_tag(<<"t">>), uc |-> snippet_tag(<<"s">>),
                    enabled |-> TRUE, preset_id |-> None] >>]) }

\* the names a snippet is created, stored or renamed with: valid ones, the
\* empty one, and ones holding a refused character
NameInputs ==
    { <<>>, <<"s">>, <<"t">>, <<"u">>, <<"s", ",">>, <<"s", " ">> }
        \cup { <<c>> : c \in InvalidNameChars }

\* the fragments of the texts expand is called on: references to stored and
\* missing names, to the empty name and to a refused name, an unknown
\* token, the delimiters, plain text, a reference left open
TextPieces ==
    { snippet_tag(<<"s">>), snippet_tag(<<"t">>), snippet_tag(<<>>),
      snippet_tag(<<"s", ",">>), <<"<", "a", ">">>, <<"<">>, <<">">>, <<"a">>,
      SnippetPrefix \o <<"s">> }

Texts == PieceStrings(TextPieces, MaxTextPieces)

\* the storage held in the variables
storage ==
    [snippets |-> snippets, name_index |-> name_index, presets |-> presets,
     main_presets |-> main_presets, settings |-> settings, records |-> records]

\* the call leaves the storage st
StorageBecomes(st) ==
    /\ snippets' = st.snippets
    /\ name_index' = st.name_index
    /\ presets' = st.presets
    /\ main_presets' = st.main_presets
    /\ settings' = st.settings
    /\ records' = st.records

InitStorage ==
    /\ call \in {"expand", "snippet_new", "upsert_snippet", "rename_snippet"}
    /\ snippets \in SnippetTables
    /\ name_index = index_of(snippets)
    /\ presets \in IF call = "rename_snippet" THEN PresetTables ELSE { <<>> }
    /\ main_presets \in IF call = "rename_snippet" THEN MainPresetTables
                        ELSE { <<>> }
    /\ settings \in IF call = "rename_snippet" THEN SettingsValues ELSE { None }
    /\ records = <<>>
    /\ input \in CASE call = "expand" -> Texts
                   [] call = "snippet_new" ->
                          [id : Ids, name : NameInputs, content : SnippetContents]
                   [] call = "upsert_snippet" ->
                          [id : Ids, name : NameInputs, content : {<<"a">>}]
                   [] call = "rename_snippet" -> [id : Ids, new_name : NameInputs]
    /\ call = "snippet_new" => snippets = <<>>
    /\ pc = "call"
    /\ chars = <<>>
    /\ pos = 0
    /\ tokens = <<>>
    /\ brace_depth = 0
    /\ bracket_depth = 0
    /\ colon_weight = None
    /\ iterations = 0
    /\ result = <<>>
    /\ preset = <<>>
    /\ NoProcessor
    /\ NoQueue

\* the call returns value and leaves the storage st, having looked up the
\* names looked
StorageReturn(value, st, looked) ==
    /\ pc' = "returned"
    /\ result' = value
    /\ StorageBecomes(st)
    /\ lookups' = looked
    /\ UNCHANGED <<call, input, chars, pos, tokens, brace_depth, bracket_depth,
                   colon_weight, iterations, preset, queue_vars, task, locals, client>>

\* the CoreResult of an expand
expand_result(r) == IF r.ok THEN Ok(r.value) ELSE Err(r.err)

Expand ==
    /\ call = "expand"
    /\ pc = "call"
    /\ StorageReturn(expand_result(expand(storage, input)), storage,
                     expand(storage, input).lookups)

SnippetNew ==
    /\ call = "snippet_new"
    /\ pc = "call"
    /\ StorageReturn(snippet_new(input.id, input.name, input.content), storage,
                     lookups)

UpsertSnippet ==
    /\ call = "upsert_snippet"
    /\ pc = "call"
    /\ StorageReturn(upsert_snippet(storage, input).result,
                     upsert_snippet(storage, input).storage, lookups)

RenameSnippet ==
    /\ call = "rename_snippet"
    /\ pc = "call"
    /\ StorageReturn(rename_snippet(storage, input.id, input.new_name).result,
                     rename_snippet(storage, input.id, input.new_name).storage,
                     lookups)

NextStorage == Expand \/ SnippetNew \/ UpsertSnippet \/ RenameSnippet

SpecStorage == InitStorage /\ [][NextStorage]_vars

-----------------------------------------------------------------------------
(* The processor calls: PromptProcessor::dry_run / process_task,            *)
(* TaskExecutor::execute                                                    *)

\* a comment of the prompt language
CommentText == <<"/", "/", "c", "/", "/">>

\* the raw positive prompts: empty, plain, a reference, text with a comment
PositivePrompts ==
    { <<>>, <<"x">>, snippet_tag(<<"s">>), <<"x">> \o CommentText }

\* the raw negative prompts
NegativePrompts == { <<>>, <<"y">>, snippet_tag(<<"t">>) }

NoRule ==
    [before |-> None, after |-> None, replace |-> None,
     uc_before |-> None, uc_after |-> None, uc_replace |-> None]

\* the main presets: empty, prefixing text, prefixing a reference,
\* replacing by a reference
MainPresets ==
    { NoRule,
      [NoRule EXCEPT !.before = Some(<<"m">>)],
      [NoRule EXCEPT !.before = Some(snippet_tag(<<"s">>)), !.uc_after = Some(<<"u">>)],
      [NoRule EXCEPT !.replace = Some(snippet_tag(<<"t">>)), !.uc_replace = Some(<<" ">>)] }

\* the snippets in storage: none, s, s and t
ProcessorSnippetTables ==
    { <<>>,
      [i \in {1} |-> [id |-> 1, name |-> <<"s">>, content |-> <<"a">>]],
      [i \in {1, 2} |->
          IF i = 1 THEN [id |-> 1, name |-> <<"s">>, content |-> <<"a">>]
          ELSE [id |-> 2, name |-> <<"t">>, content |-> snippet_tag(<<"s">>)]] }

\* the character presets in storage: none, or the preset 1
ProcessorPresetTables ==
    { <<>>,
      [i \in {1} |->
          [id |-> 1, before |-> Some(<<"b">>), after |-> None, replace |-> None,
           uc_before |-> None, uc_after |-> None,
           uc_replace |-> Some(snippet_tag(<<"s">>))]] }

\* the character slots: plain, disabled with a reference, blank without and
\* with a preset, with the id of a preset that may be gone, with references
\* and a preset
SlotValues ==
    { [prompt |-> <<"x">>, uc |-> <<>>, enabled |-> TRUE, preset_id |-> None],
      [prompt |-> snippet_tag(<<"t">>), uc |-> <<>>, enabled |-> FALSE,
       preset_id |-> None],
      [prompt |-> <<" ">>, uc |-> snippet_tag(<<"s">>), enabled |-> TRUE,
       preset_id |-> None],
      [prompt |-> <<>>, uc |-> <<>>, enabled |-> TRUE, preset_id |-> Some(1)],
      [prompt |-> <<"x">>, uc |-> <<"y">>, enabled |-> TRUE, preset_id |-> Some(2)],
      [prompt |-> snippet_tag(<<"s">>), uc |-> snippet_tag(<<"t">>),
       enabled |-> TRUE, preset_id |-> Some(1)] }

\* the character prompts of a task: plain, with a comment, disabled with a
\* reference, with a reference in prompt and in uc
CharacterPromptValues ==
    { [prompt |-> <<"x">>, uc |-> <<>>, enabled |-> TRUE],
      [prompt |-> CommentText, uc |-> <<"y">>, enabled |-> TRUE],
      [prompt |-> snippet_tag(<<"t">>), uc |-> <<>>, enabled |-> FALSE],
      [prompt |-> snippet_tag(<<"s">>), uc |-> snippet_tag(<<"t">>), enabled |-> TRUE] }

\* the sequences of at most n elements of S
SeqsUpTo(S, n) == UNION { [1..k -> S] : k \in 0..n }

\* the arguments of dry_run
DryRunInputs ==
    [raw_positive : PositivePrompts, raw_negative : NegativePrompts,
     main_preset : MainPresets, character_slots : SeqsUpTo(SlotValues, MaxSlots)]

\* the tasks given to process_task and to execute
Tasks ==
    [raw_prompt : PositivePrompts, negative_prompt : NegativePrompts,
     count : 1..MaxCount, main_preset : MainPresets,
     params : [character_prompts :
                  {None} \cup { Some(c) : c \in SeqsUpTo(CharacterPromptValues, MaxSlots) }]]

InitProcessor ==
    /\ call \in {"dry_run", "process_task", "execute"}
    /\ snippets \in ProcessorSnippetTables
    /\ name_index = index_of(snippets)
    /\ presets \in IF call = "dry_run" THEN ProcessorPresetTables ELSE { <<>> }
    /\ main_presets = <<>>
    /\ settings = None
    /\ records = <<>>
    /\ input \in IF call = "dry_run" THEN DryRunInputs
                 ELSE { t \in Tasks : call = "process_task" => t.count = 1 }
    /\ task = IF call = "dry_run" THEN <<>> ELSE input
    /\ locals = <<>>
    /\ lookups = <<>>
    /\ client = <<>>
    /\ pc = "call"
    /\ chars = <<>>
    /\ pos = 0
    /\ tokens = <<>>
    /\ brace_depth = 0
    /\ bracket_depth = 0
    /\ colon_weight = None
    /\ iterations = 0
    /\ result = <<>>
    /\ preset = <<>>
    /\ NoQueue

\* what no processor call changes
ProcessorUnchanged ==
    UNCHANGED <<call, input, chars, pos, tokens, brace_depth, bracket_depth,
                colon_weight, iterations, preset, queue_vars, snippets, name_index, presets,
                main_presets, settings>>

\* dry_run returns with the outcome r
DryRunReturn(r) ==
    /\ result' = r.result
    /\ lookups' = r.lookups
    /\ locals' = [preset_lookups |-> r.preset_lookups]
    /\ pc' = "returned"
    /\ ProcessorUnchanged
    /\ UNCHANGED <<task, client, records>>

DryRun ==
    /\ call = "dry_run"
    /\ pc = "call"
    /\ DryRunReturn(dry_run(storage, input.raw_positive, input.raw_negative,
                            input.main_preset, input.character_slots))

\* process_task returns with the outcome r
ProcessTaskReturn(r) ==
    /\ result' = r.result
    /\ task' = r.task
    /\ lookups' = r.lookups
    /\ pc' = "returned"
    /\ ProcessorUnchanged
    /\ UNCHANGED <<locals, client, records>>

ProcessTask ==
    /\ call = "process_task"
    /\ pc = "call"
    /\ ProcessTaskReturn(process_task(storage, task))

\* the prompt processing of execute has the outcome r: on success the task
\* gets the expanded character prompts and the image loop begins, on failure
\* execute returns the error
ExecuteProcessed(r) ==
    /\ task' = IF r.ok
               THEN [task EXCEPT !.params.character_prompts =
                                     r.expanded_character_prompts]
               ELSE task
    /\ locals' = IF r.ok
                 THEN [expanded_prompt |-> r.expanded_prompt,
                       expanded_negative |-> r.expanded_negative,
                       images |-> <<>>]
                 ELSE locals
    /\ result' = IF r.ok THEN result ELSE Err(r.err)
    /\ lookups' = r.lookups
    /\ pc' = IF r.ok THEN "generate" ELSE "returned"
    /\ ProcessorUnchanged
    /\ UNCHANGED <<client, records>>

\* execute: the prompt processing in spawn_blocking
ExecuteProcess ==
    /\ call = "execute"
    /\ pc = "call"
    /\ ExecuteProcessed(execute_process(storage, task))

\* execute: one iteration of the image loop, the client returns an image
\* and the file is written
ExecuteGenerate ==
    /\ call = "execute"
    /\ pc = "generate"
    /\ Len(locals.images) < task.count
    /\ client' = Append(client, to_nai_request(task, locals.expanded_prompt,
                                               locals.expanded_negative))
    /\ locals' = [locals EXCEPT !.images = Append(@, [index |-> Len(@)])]
    /\ ProcessorUnchanged
    /\ UNCHANGED <<pc, result, task, lookups, records>>

\* execute: one iteration of the image loop, the client or the file write
\* returns an error and execute returns it
ExecuteGenerateFails ==
    /\ call = "execute"
    /\ pc = "generate"
    /\ Len(locals.images) < task.count
    /\ client' = Append(client, to_nai_request(task, locals.expanded_prompt,
                                               locals.expanded_negative))
    /\ result' = Err([kind |-> "generate image"])
    /\ pc' = "returned"
    /\ ProcessorUnchanged
    /\ UNCHANGED <<task, locals, lookups, records>>

\* the GenerationRecord of execute
generation_record(record_id, t, l) ==
    [id |-> record_id, raw_prompt |-> t.raw_prompt,
     expanded_prompt |-> l.expanded_prompt,
     negative_prompt |-> l.expanded_negative, images |-> l.images]

\* execute: the record is appended under a fresh id and returned
ExecuteRecord ==
    /\ call = "execute"
    /\ pc = "generate"
    /\ Len(locals.images) = task.count
    /\ \E record_id \in Ids \ DOMAIN records :
           /\ records' = table_insert(records, record_id,
                                      generation_record(record_id, task, locals))
           /\ result' = Ok(generation_record(record_id, task, locals))
    /\ pc' = "returned"
    /\ ProcessorUnchanged
    /\ UNCHANGED <<task, locals, lookups, client>>

NextProcessor ==
    \/ DryRun
    \/ ProcessTask
    \/ ExecuteProcess
    \/ ExecuteGenerate
    \/ ExecuteGenerateFails
    \/ ExecuteRecord

SpecProcessor == InitProcessor /\ [][NextProcessor]_vars

-----------------------------------------------------------------------------
(* Concurrent callers of upsert_snippet, rename_snippet and delete_snippet  *)

\* the callers
Callers == {1, 2}

\* the names the callers store and rename with
CallerNames == { <<"s">>, <<"t">>, <<"u">> }

\* the calls a caller makes
CallerInputs ==
    [op : {"upsert_snippet"}, snippet : [id : Ids, name : CallerNames, content : {<<"a">>}]]
        \cup [op : {"rename_snippet"}, id : Ids, new_name : CallerNames]
        \cup [op : {"delete_snippet"}, id : Ids]

\* the id the call of caller c is about
caller_id(c) ==
    IF input[c].op = "upsert_snippet" THEN input[c].snippet.id ELSE input[c].id

InitConcurrent ==
    /\ call = "concurrent"
    /\ snippets \in SnippetTables
    /\ name_index = index_of(snippets)
    /\ presets = <<>>
    /\ main_presets = <<>>
    /\ settings = None
    /\ records = <<>>
    /\ input \in [Callers -> CallerInputs]
    /\ pc = [c \in Callers |-> "read"]
    /\ locals = [c \in Callers |-> None]
    /\ result = [c \in Callers |-> <<>>]
    /\ lookups = <<>>
    /\ task = <<>>
    /\ client = <<>>
    /\ chars = <<>>
    /\ pos = 0
    /\ tokens = <<>>
    /\ brace_depth = 0
    /\ bracket_depth = 0
    /\ colon_weight = None
    /\ iterations = 0
    /\ preset = <<>>
    /\ NoQueue

\* what no step of a caller changes
ConcurrentUnchanged ==
    UNCHANGED <<call, input, chars, pos, tokens, brace_depth, bracket_depth,
                colon_weight, iterations, preset, queue_vars, lookups, task, client>>

\* the read transaction of caller c returns old: delete_snippet and
\* rename_snippet return at once when nothing is stored under the id,
\* rename_snippet also when the name read is the new name
ReadReturns(c, old) ==
    /\ locals' = [locals EXCEPT ![c] = old]
    /\ IF input[c].op = "delete_snippet" /\ ~is_some(old)
       THEN /\ pc' = [pc EXCEPT ![c] = "returned"]
            /\ result' = [result EXCEPT ![c] = Ok(FALSE)]
       ELSE IF input[c].op = "rename_snippet" /\ ~is_some(old)
       THEN /\ pc' = [pc EXCEPT ![c] = "returned"]
            /\ result' = [result EXCEPT ![c] = Err([kind |-> "snippet not found"])]
       ELSE IF input[c].op = "rename_snippet" /\ unwrap(old).name = input[c].new_name
       THEN /\ pc' = [pc EXCEPT ![c] = "returned"]
            /\ result' = [result EXCEPT ![c] =
                              Ok([snippet |-> unwrap(old), updated_presets |-> 0,
                                  updated_settings |-> FALSE])]
       ELSE /\ pc' = [pc EXCEPT ![c] = "write"]
            /\ UNCHANGED result
    /\ UNCHANGED storage_vars
    /\ ConcurrentUnchanged

\* caller c runs its read transaction
CallerRead(c) ==
    /\ call = "concurrent"
    /\ pc[c] = "read"
    /\ ReadReturns(c, snippet_read(storage, caller_id(c)))

\* the write transaction of caller c ends with the outcome w:
\* upsert_snippet and delete_snippet return, rename_snippet returns when
\* the name is taken and goes on to update_snippet_references otherwise
WriteEnds(c, w) ==
    /\ StorageBecomes(w.storage)
    /\ result' = [result EXCEPT ![c] = w.result]
    /\ pc' = [pc EXCEPT ![c] = IF input[c].op = "rename_snippet" /\ w.result.ok
                                THEN "references" ELSE "returned"]
    /\ UNCHANGED locals
    /\ ConcurrentUnchanged

\* caller c runs its write transaction
CallerWrite(c) ==
    /\ call = "concurrent"
    /\ pc[c] = "write"
    /\ WriteEnds(c,
           CASE input[c].op = "upsert_snippet" ->
                    upsert_snippet_write(storage, input[c].snippet, locals[c])
             [] input[c].op = "rename_snippet" ->
                    rename_snippet_write(storage, unwrap(locals[c]), input[c].new_name)
             [] input[c].op = "delete_snippet" ->
                    delete_snippet_write(storage, unwrap(locals[c])))

\* update_snippet_references of caller c ends with the outcome refs and
\* rename_snippet returns
ReferencesUpdated(c, refs) ==
    /\ StorageBecomes(refs.storage)
    /\ result' = [result EXCEPT ![c] =
                      Ok([snippet |-> result[c].value,
                          updated_presets |-> refs.updated_presets,
                          updated_settings |-> refs.updated_settings])]
    /\ pc' = [pc EXCEPT ![c] = "returned"]
    /\ UNCHANGED locals
    /\ ConcurrentUnchanged

\* caller c, renaming, updates the references
CallerReferences(c) ==
    /\ call = "concurrent"
    /\ pc[c] = "references"
    /\ ReferencesUpdated(c, update_snippet_references(storage, unwrap(locals[c]).name,
                                                      input[c].new_name))

NextConcurrent ==
    \/ \E c \in Callers : CallerRead(c)
    \/ \E c \in Callers : CallerWrite(c)
    \/ \E c \in Callers : CallerReferences(c)

SpecConcurrent == InitConcurrent /\ [][NextConcurrent]_vars

-----------------------------------------------------------------------------
(* server/src/lib.rs: TaskQueue                                             *)
(* The worker spawned by TaskQueue::new is process 0; the other processes   *)
(* are callers of submit, one task each, with the fresh id                  *)
(* GenerateTaskRequest::new gave it.  A TaskStatus is a record with its     *)
(* kind and, for Completed and Failed, its payload.                         *)

\* mpsc::channel::<GenerateTaskRequest>(32)
ChannelCapacity == 32

Worker == 0

Submitters == 1..MaxTasks

Pending == [kind |-> "Pending"]

Running == [kind |-> "Running"]

Completed(record) == [kind |-> "Completed", record |-> record]

Failed(error) == [kind |-> "Failed", error |-> error]

\* the task rx.recv() returns: the newest in the channel
recv_newest(ch, n) == ch[Len(ch)]

\* the task rx.recv() returns: the oldest not yet received
recv(ch, n) == ch[n + 1]

\* the match on the result of execute that leaves a failed task as it is
finished_ok_only(map, t, res) ==
    IF res.ok THEN table_insert(map, res.value.task_id, Completed(res.value))
    ELSE map

\* the match on the result of execute: the status map it leaves
finished(map, t, res) ==
    IF res.ok THEN table_insert(map, res.value.task_id, Completed(res.value))
    ELSE table_insert(map, t.id, Failed(res.err))

\* the outcomes of TaskExecutor::execute on the task t, whose steps the
\* processor calls follow: a record for the task, or an error
Executions(t) ==
    { Ok([task_id |-> t.id, raw_prompt |-> t.raw_prompt]),
      Err([kind |-> "generate image"]) }

InitQueue ==
    /\ call = "queue"
    /\ input = [c \in Submitters |-> [id |-> c, raw_prompt |-> <<"x">>]]
    /\ pc = [c \in {Worker} \cup Submitters |-> IF c = Worker THEN "recv" ELSE "call"]
    /\ statuses = <<>>
    /\ channel = <<>>
    /\ received = 0
    /\ task = <<>>
    /\ locals = <<>>
    /\ result = <<>>
    /\ lookups = <<>>
    /\ client = <<>>
    /\ chars = <<>>
    /\ pos = 0
    /\ tokens = <<>>
    /\ brace_depth = 0
    /\ bracket_depth = 0
    /\ colon_weight = None
    /\ iterations = 0
    /\ preset = <<>>
    /\ NoStorage

\* what no step of the queue changes
QueueUnchanged ==
    UNCHANGED <<call, input, chars, pos, tokens, brace_depth, bracket_depth,
                colon_weight, iterations, preset, lookups, client, storage_vars>>

\* submit: the task is recorded as Pending under the lock
SubmitPending(c) ==
    /\ call = "queue"
    /\ pc[c] = "call"
    /\ statuses' = table_insert(statuses, input[c].id, Pending)
    /\ pc' = [pc EXCEPT ![c] = "send"]
    /\ UNCHANGED <<channel, received, task, locals, result>>
    /\ QueueUnchanged

\* submit: tx.send(task).await completes once the channel has room
SubmitSend(c) ==
    /\ call = "queue"
    /\ pc[c] = "send"
    /\ Len(channel) - received < ChannelCapacity
    /\ channel' = Append(channel, input[c])
    /\ pc' = [pc EXCEPT ![c] = "returned"]
    /\ UNCHANGED <<statuses, received, task, locals, result>>
    /\ QueueUnchanged

\* status: the entry of the map under the lock, cloned
Status(id) ==
    /\ call = "queue"
    /\ result' = table_get(statuses, id)
    /\ result' # result
    /\ UNCHANGED <<pc, statuses, channel, received, task, locals>>
    /\ QueueUnchanged

\* the worker: rx.recv().await returns a task
WorkerRecv ==
    /\ call = "queue"
    /\ pc[Worker] = "recv"
    /\ received < Len(channel)
    /\ task' = recv(channel, received)
    /\ received' = received + 1
    /\ pc' = [pc EXCEPT ![Worker] = "mark"]
    /\ UNCHANGED <<statuses, channel, locals, result>>
    /\ QueueUnchanged

\* the worker: the task is recorded as Running under the lock
WorkerMarkRunning ==
    /\ call = "queue"
    /\ pc[Worker] = "mark"
    /\ statuses' = table_insert(statuses, task.id, Running)
    /\ pc' = [pc EXCEPT ![Worker] = "execute"]
    /\ UNCHANGED <<channel, received, task, locals, result>>
    /\ QueueUnchanged

\* the worker: executor.execute(task.clone()).await returns
WorkerExecute ==
    /\ call = "queue"
    /\ pc[Worker] = "execute"
    /\ \E res \in Executions(task) : locals' = res
    /\ pc' = [pc EXCEPT ![Worker] = "finish"]
    /\ UNCHANGED <<statuses, channel, received, task, result>>
    /\ QueueUnchanged

\* the worker: the outcome is recorded under the lock and the loop goes on
WorkerFinish ==
    /\ call = "queue"
    /\ pc[Worker] = "finish"
    /\ statuses' = finished(statuses, task, locals)
    /\ pc' = [pc EXCEPT ![Worker] = "recv"]
    /\ UNCHANGED <<channel, received, task, locals, result>>
    /\ QueueUnchanged

\* the steps of the worker
WorkerStep == WorkerRecv \/ WorkerMarkRunning \/ WorkerExecute \/ WorkerFinish

NextQueue ==
    \/ \E c \in Submitters : SubmitPending(c)
    \/ \E c \in Submitters : SubmitSend(c)
    \/ \E id \in Submitters : Status(id)
    \/ WorkerStep

SpecQueue == InitQueue /\ [][NextQueue]_vars

\* the worker task is scheduled as long as it can run, and every execution
\* returns
SpecQueueFair == SpecQueue /\ WF_vars(WorkerStep)

-----------------------------------------------------------------------------
(* Properties of parse *)

\* a call of parse is running or has returned (format calls parse first)
InParse == call \in {"parse", "format"}

ParseReturned == call = "parse" /\ pc = "returned"

\* the byte offset the scan has reached
ScannedBytes == IF pos < Len(chars) THEN ByteAt(chars, pos) ELSE Len(as_bytes(input))

\* the bytes input[start..end]
SourceSlice(start, end) == SubSeq(as_bytes(input), start + 1, end)

\* C1: parse is total: every iteration of the main scanning loop either emits
\* a token or advances the scan position, so the scan terminates.
C1_EveryIterationProgresses ==
    [][ParseStep => (Len(tokens') > Len(tokens) \/ pos' > pos)]_vars

\* C2: the token spans are non-empty, in source order and contiguous from 0 to
\* the scan position, and the source substrings they name concatenate to the
\* input scanned so far; a returned parse has scanned the whole input.
C2_Lossless ==
    InParse =>
        /\ \A i \in 1..Len(tokens) : tokens[i].start < tokens[i].end
        /\ \A i \in 1..(Len(tokens) - 1) : tokens[i].end = tokens[i + 1].start
        /\ Len(tokens) > 0 => tokens[1].start = 0
        /\ (IF Len(tokens) = 0 THEN 0 ELSE tokens[Len(tokens)].end) = ScannedBytes
        /\ Concat([i \in 1..Len(tokens) |-> SourceSlice(tokens[i].start, tokens[i].end)])
               = SubSeq(as_bytes(input), 1, ScannedBytes)
        /\ ParseReturned =>
               /\ result.tokens = tokens
               /\ Concat([i \in 1..Len(tokens) |->
                              SourceSlice(tokens[i].start, tokens[i].end)])
                      = as_bytes(input)

C2_Witness ==
    /\ ParseReturned
    /\ \E i \in 1..Len(result.tokens) :
           /\ result.tokens[i].type = "SnippetRef"
           /\ result.tokens[i].name = <<"han">>
           /\ result.tokens[i].end - result.tokens[i].start = 13

RECURSIVE NestDepth(_, _, _, _)
\* the nesting depth after the first n tokens, counted from the kinds of the
\* tokens: an opener adds one, a closer takes one away unless the depth is 0
NestDepth(toks, n, open, close) ==
    IF n = 0 THEN 0
    ELSE LET d == NestDepth(toks, n - 1, open, close)
         IN  IF toks[n].type = open THEN d + 1
             ELSE IF toks[n].type = close THEN (IF d = 0 THEN 0 ELSE d - 1)
             ELSE d

BraceDepthAfter(toks, n) == NestDepth(toks, n, "BraceOpen", "BraceClose")

BracketDepthAfter(toks, n) == NestDepth(toks, n, "BracketOpen", "BracketClose")

RECURSIVE ActiveScalar(_, _)
\* the value of the most recent WeightStart among the first n tokens that no
\* WeightEnd follows, if there is one
ActiveScalar(toks, n) ==
    IF n = 0 THEN None
    ELSE IF toks[n].type = "WeightStart" THEN Some(toks[n].value)
    ELSE IF toks[n].type = "WeightEnd" THEN None
    ELSE ActiveScalar(toks, n - 1)

RECURSIVE Pow(_, _)
Pow(x, n) == IF n = 0 THEN 1 ELSE x * Pow(x, n - 1)

\* 1.05^b / 1.05^k * a as a rational, with 1.05 = 21/20 and a = 1 when absent
ExpectedWeight(b, k, a) ==
    LET s == IF is_some(a) THEN unwrap(a) ELSE [num |-> 1, den |-> 1]
    IN  Rat(Pow(21, b) * Pow(20, k) * s.num, Pow(20, b) * Pow(21, k) * s.den)

\* C3: the weight of every Text and SnippetRef token is 1.05^b / 1.05^k * a for
\* the brace depth b, the bracket depth k and the active scalar a in effect at
\* the token (a = 1 when no weight scope is open).
C3_Weight ==
    InParse =>
        \A i \in 1..Len(tokens) :
            tokens[i].type \in {"Text", "SnippetRef"} =>
                tokens[i].weight =
                    ExpectedWeight(BraceDepthAfter(tokens, i - 1),
                                   BracketDepthAfter(tokens, i - 1),
                                   ActiveScalar(tokens, i - 1))

C3_Witness ==
    /\ ParseReturned
    /\ \E i \in 1..Len(result.tokens) :
           /\ result.tokens[i].type = "Text"
           /\ BraceDepthAfter(result.tokens, i - 1) = 2
           /\ BracketDepthAfter(result.tokens, i - 1) = 0
           /\ ActiveScalar(result.tokens, i - 1) = Some([num |-> 1, den |-> 10])
           /\ result.tokens[i].weight = [num |-> 441, den |-> 4000]

\* C4: the active scalar is the value of the most recent WeightStart that no
\* WeightEnd has followed (a WeightStart in an open scope replaces it) and is
\* absent otherwise; a WeightEnd token is emitted only for a `::` met while a
\* scope is open; unclosed_weight tells whether a scope is open at the end.
C4_ActiveScalar ==
    InParse =>
        /\ colon_weight = ActiveScalar(tokens, Len(tokens))
        /\ \A i \in 1..Len(tokens) :
               tokens[i].type = "WeightEnd" =>
                   /\ is_some(ActiveScalar(tokens, i - 1))
                   /\ SourceSlice(tokens[i].start, tokens[i].end) = <<":", ":">>
        /\ ParseReturned =>
               result.unclosed_weight =
                   is_some(ActiveScalar(result.tokens, Len(result.tokens)))

C4_Witness ==
    /\ ParseReturned
    /\ ~result.unclosed_weight
    /\ \E i, j, k \in 1..Len(result.tokens) :
           /\ i < j /\ j < k
           /\ result.tokens[i].type = "WeightStart"
           /\ result.tokens[j].type = "WeightStart"
           /\ result.tokens[i].value # result.tokens[j].value
           /\ result.tokens[k].type = "WeightEnd"
           /\ \A m \in (i + 1)..(j - 1) : result.tokens[m].type # "WeightEnd"

\* C5: the brace and bracket depths are never negative: an opener adds one, a
\* closer takes one away clamped at 0; the depth field of every brace and
\* bracket token is the depth after that token; unclosed_braces and
\* unclosed_brackets are the depths at the end of the input.
C5_Depths ==
    InParse =>
        /\ brace_depth >= 0
        /\ bracket_depth >= 0
        /\ brace_depth = BraceDepthAfter(tokens, Len(tokens))
        /\ bracket_depth = BracketDepthAfter(tokens, Len(tokens))
        /\ \A i \in 1..Len(tokens) :
               /\ tokens[i].type \in {"BraceOpen", "BraceClose"} =>
                      tokens[i].depth = BraceDepthAfter(tokens, i)
               /\ tokens[i].type \in {"BracketOpen", "BracketClose"} =>
                      tokens[i].depth = BracketDepthAfter(tokens, i)
        /\ ParseReturned =>
               /\ result.unclosed_braces
                      = BraceDepthAfter(result.tokens, Len(result.tokens))
               /\ result.unclosed_brackets
                      = BracketDepthAfter(result.tokens, Len(result.tokens))

C5_Witness ==
    /\ ParseReturned
    /\ Len(result.tokens) >= 3
    /\ result.tokens[1].type = "BraceClose"
    /\ result.tokens[1].depth = 0
    /\ result.tokens[2].type = "BracketClose"
    /\ result.tokens[2].depth = 0
    /\ result.unclosed_braces = 1

\* a `//` at the scan position that no later `//` closes
AtUnclosedComment ==
    /\ pos + 1 < Len(chars)
    /\ CharAt(chars, pos) = "/"
    /\ CharAt(chars, pos + 1) = "/"
    /\ ~\E i \in (pos + 2)..(Len(chars) - 2) :
           CharAt(chars, i) = "/" /\ CharAt(chars, i + 1) = "/"

\* C6: a `//` with no later closing `//` is tokenized as ordinary text: the
\* iteration that meets it emits a Text token that starts with the `//`, no
\* Comment token, and the scan moves on.
C6_UnclosedCommentIsText ==
    [][(ParseStep /\ AtUnclosedComment) =>
           /\ pos' > pos
           /\ Len(tokens') = Len(tokens) + 1
           /\ tokens'[Len(tokens')].type = "Text"
           /\ starts_with(tokens'[Len(tokens')].value, "/")]_vars

-----------------------------------------------------------------------------
(* Properties of strip_comments *)

StripReturned == call = "strip_comments" /\ pc = "returned"

\* the least byte offset i >= from where bytes[i], bytes[i + 1] are `//`, or -1
NextDelimiter(bytes, from) ==
    LET at == { i \in from..(Len(bytes) - 2) : bytes[i + 1] = "/" /\ bytes[i + 2] = "/" }
    IN  IF at = {} THEN -1 ELSE CHOOSE i \in at : \A j \in at : i <= j

RECURSIVE PairComments(_, _)
\* pairs each opening `//` at or after from with the next `//`: the spans
\* [open, close + 2) of the closed comments, and the offset of the first
\* opening without a closing (-1 when every opening is closed)
PairComments(bytes, from) ==
    LET open == NextDelimiter(bytes, from)
        close == NextDelimiter(bytes, open + 2)
    IN  IF open = -1 THEN [spans |-> {}, unclosed |-> -1]
        ELSE IF close = -1 THEN [spans |-> {}, unclosed |-> open]
        ELSE LET rest == PairComments(bytes, close + 2)
             IN  [spans |-> { <<open, close + 2>> } \cup rest.spans,
                  unclosed |-> rest.unclosed]

\* the characters of s that lie in none of the spans, in order
Outside(s, spans) ==
    LET kept == SelectSeq(char_indices(s),
                          LAMBDA e : \A sp \in spans : e[1] < sp[1] \/ e[1] >= sp[2])
    IN  [i \in 1..Len(kept) |-> kept[i][2]]

\* C7: strip_comments pairs each opening `//` with the next `//`; when every
\* opening has a closing it returns Ok with the input minus those spans (the
\* input itself when it has no `//`), otherwise Err(UnclosedComment(p)) with
\* p the byte offset of the first opening `//` without a closing.
C7_StripComments ==
    StripReturned =>
        LET bytes == as_bytes(input)
            pairs == PairComments(bytes, 0)
        IN  /\ pairs.unclosed = -1 =>
                   result = [ok |-> TRUE, value |-> Outside(input, pairs.spans)]
            /\ pairs.unclosed # -1 => result = [ok |-> FALSE, err |-> pairs.unclosed]
            /\ NextDelimiter(bytes, 0) = -1 => result = [ok |-> TRUE, value |-> input]

C7_Witness ==
    /\ StripReturned
    /\ input = <<"han", "/", "/", "/", "/">>
    /\ result = [ok |-> TRUE, value |-> <<"han">>]

-----------------------------------------------------------------------------
(* Properties of format *)

FormatReturned == call = "format" /\ pc = "returned"

\* C8: formatting is idempotent: format(format(s)) == format(s).
C8_FormatIdempotent ==
    FormatReturned => format(result) = [diverges |-> FALSE, value |-> result]

\* the output format has built after the first n tokens
EmittedAfter(toks, n) == format_loop(format_start, SubSeq(toks, 1, n)).output

\* C9: in the output of format every comma is followed by exactly one space
\* before the next non-whitespace token, when the comma is followed in the
\* input by a Whitespace token (starting with a space or with another
\* whitespace character), by a Text token or by a SnippetRef token; a comma
\* that nothing follows ends the output.
C9_CommaOneSpace ==
    FormatReturned =>
        \A j \in 1..Len(tokens) :
            tokens[j].type = "Comma" =>
                LET at == Len(EmittedAfter(tokens, j))
                IN  /\ result[at] = ","
                    /\ j = Len(tokens) => Len(result) = at
                    /\ (j < Len(tokens)
                        /\ tokens[j + 1].type \in {"Whitespace", "Text", "SnippetRef"}) =>
                           /\ Len(result) > at
                           /\ result[at + 1] = " "
                           /\ Len(result) > at + 1 =>
                                  ~is_whitespace(result[at + 2]) \/ result[at + 2] = "\n"

-----------------------------------------------------------------------------
(* Properties of the preset calls *)

PresetReturned ==
    call \in PositiveCalls \cup NegativeCalls /\ pc = "returned"

\* the replace field the call reads
ReplaceField == IF call \in PositiveCalls THEN preset.replace ELSE preset.uc_replace

\* the rule without the replace field the call reads
WithoutReplace ==
    IF call \in PositiveCalls THEN [preset EXCEPT !.replace = None]
    ELSE [preset EXCEPT !.uc_replace = None]

\* what the call returns on rule p
Applied(p) ==
    CASE call = "apply_positive" -> apply_positive(p, input)
      [] call = "apply_negative" -> apply_negative(p, input)
      [] call = "apply" -> apply(p, input)
      [] call = "apply_uc" -> apply_uc(p, input)

\* present and not all whitespace
NonBlank(o) == o # None /\ \E i \in 1..Len(o[1]) : ~is_whitespace(o[1][i])

\* s occurs in t
Occurs(s, t) == \E i \in 0..(Len(t) - Len(s)) : SubSeq(t, i + 1, i + Len(s)) = s

\* C10: replace priority: for each of the four apply functions, a non-blank
\* replace field is returned verbatim whatever the raw input and before/after
\* are; with a blank replace field the before/after path is used: the result
\* is that of the rule without the field, and the raw input is part of it.
C10_ReplacePriority ==
    PresetReturned =>
        /\ NonBlank(ReplaceField) => result = ReplaceField[1]
        /\ ~NonBlank(ReplaceField) =>
               /\ result = Applied(WithoutReplace)
               /\ Occurs(input, result)

C10_Witness ==
    /\ PresetReturned
    /\ call = "apply_positive"
    /\ preset.replace = Some(<<" ", "b", " ">>)
    /\ preset.before = Some(<<"b">>)
    /\ preset.after = Some(<<"b", ",">>)
    /\ input = <<"x", ",">>
    /\ result = <<" ", "b", " ">>

\* the before/after fields the call reads
BeforeField == IF call \in PositiveCalls THEN preset.before ELSE preset.uc_before

AfterField == IF call \in PositiveCalls THEN preset.after ELSE preset.uc_after

\* the field's text without leading and trailing whitespace
Trimmed(o) == trim(o[1])

\* the last character of t that is not whitespace is a comma
EndsInComma(t) ==
    \E i \in 1..Len(t) : t[i] = "," /\ \A j \in (i + 1)..Len(t) : is_whitespace(t[j])

CommaSpace == <<",", " ">>

\* the text the main preset puts in front of the raw prompt
MainPrefix ==
    IF ~NonBlank(BeforeField) THEN <<>>
    ELSE Trimmed(BeforeField)
             \o (IF EndsInComma(Trimmed(BeforeField)) THEN <<>> ELSE CommaSpace)

\* the text the main preset puts behind sofar
MainSuffix(sofar) ==
    IF ~NonBlank(AfterField) THEN <<>>
    ELSE (IF sofar = <<>> \/ EndsInComma(sofar) THEN <<>> ELSE CommaSpace)
             \o Trimmed(AfterField)

\* C11: main-preset wrapping with a blank replace field: apply_positive and
\* apply_negative return trim(before) followed by ", " unless it ends in a
\* comma, then the raw prompt, then ", " unless the text so far is empty or
\* ends in a comma ignoring trailing whitespace, then trim(after); a blank
\* before or after contributes neither text nor separator.
C11_MainWrapping ==
    (PresetReturned /\ call \in {"apply_positive", "apply_negative"}
                    /\ ~NonBlank(ReplaceField)) =>
        result = MainPrefix \o input \o MainSuffix(MainPrefix \o input)

C11_Witness ==
    /\ PresetReturned
    /\ call = "apply_negative"
    /\ preset.uc_replace = Some(<<" ">>)
    /\ preset.uc_before = Some(<<" ", "b", " ">>)
    /\ preset.uc_after = Some(<<"b">>)
    /\ input = <<"x">>
    /\ result = <<"b", ",", " ", "x", ",", " ", "b">>

\* the number of commas in t
RECURSIVE Commas(_)
Commas(t) ==
    IF t = <<>> THEN 0 ELSE (IF Head(t) = "," THEN 1 ELSE 0) + Commas(Tail(t))

\* the text the character preset puts in front of the raw prompt
CharacterPrefix ==
    IF ~NonBlank(BeforeField) THEN <<>> ELSE Append(Trimmed(BeforeField), " ")

\* the text the character preset puts behind sofar
CharacterSuffix(sofar) ==
    IF ~NonBlank(AfterField) THEN <<>>
    ELSE (IF sofar = <<>> \/ sofar[Len(sofar)] = " " THEN <<>> ELSE <<" ">>)
             \o Trimmed(AfterField)

\* C12: character-preset positive wrapping with a blank replace field:
\* CharacterPreset::apply joins trim(before), the raw prompt and trim(after)
\* with one space, put in only when the text so far is non-empty and does not
\* end in a space; it adds no comma, so where the main preset would put ", "
\* after before its result differs from apply_positive on the same rule.
C12_CharacterWrapping ==
    (PresetReturned /\ call = "apply" /\ ~NonBlank(ReplaceField)) =>
        /\ result = CharacterPrefix \o input \o CharacterSuffix(CharacterPrefix \o input)
        /\ Commas(result) = Commas(CharacterPrefix) + Commas(input)
                                + Commas(CharacterSuffix(<<>>))
        /\ (NonBlank(BeforeField) /\ ~EndsInComma(Trimmed(BeforeField))) =>
               result # apply_positive(preset, input)

C12_Witness ==
    /\ PresetReturned
    /\ call = "apply"
    /\ preset.replace = None
    /\ preset.before = Some(<<"b">>)
    /\ preset.after = Some(<<" ", "b", " ">>)
    /\ input = <<"x", ",">>
    /\ result = <<"b", " ", "x", ",", " ", "b">>

-----------------------------------------------------------------------------
(* Properties of SnippetResolver::expand and of the snippet names *)

ExpandReturned == call = "expand" /\ pc = "returned"

\* the '<' at index i of s opens a bracket token: it does not lie inside a
\* token opened by an earlier '<'
OpensToken(s, i) ==
    /\ s[i] = "<"
    /\ ~\E k \in 1..(i - 1) : s[k] = "<" /\ \A m \in (k + 1)..(i - 1) : s[m] # ">"

\* j is the index of the next '>' after index i of s
ClosesToken(s, i, j) ==
    /\ j \in (i + 1)..Len(s)
    /\ s[j] = ">"
    /\ \A m \in (i + 1)..(j - 1) : s[m] # ">"

\* the bracket tokens <TOKEN> of s, each as the indices of its '<' and '>'
BracketTokens(s) ==
    { ij \in (1..Len(s)) \X (1..Len(s)) :
        OpensToken(s, ij[1]) /\ ClosesToken(s, ij[1], ij[2]) }

\* the TOKEN of the bracket token ij
TokenText(s, ij) == SubSeq(s, ij[1] + 1, ij[2] - 1)

\* TOKEN starts with "snippet:"
IsReference(token) ==
    /\ Len(token) >= Len(SnippetTokenPrefix)
    /\ SubSeq(token, 1, Len(SnippetTokenPrefix)) = SnippetTokenPrefix

\* the NAME of the reference
ReferenceName(token) == SubSeq(token, Len(SnippetTokenPrefix) + 1, Len(token))

\* every '<' of s that opens a token has a later '>'
AllClosed(s) ==
    \A i \in 1..Len(s) : OpensToken(s, i) => \E j \in 1..Len(s) : ClosesToken(s, i, j)

\* the text before and the text after the bracket token ij
Before(s, ij) == SubSeq(s, 1, ij[1] - 1)

After(s, ij) == SubSeq(s, ij[2] + 1, Len(s))

\* C13: expand passes unknown bracket syntax through: for every <TOKEN> of
\* the input whose TOKEN does not start with "snippet:", the output is the
\* expansion of the text before it, then <TOKEN> unchanged, then the
\* expansion of the text after it; the token causes no lookup and no error
\* (an error of the call is the error of the text before or after it); a text
\* whose brackets are all closed and all of this kind is returned unchanged
\* without any lookup.
C13_UnknownPassThrough ==
    ExpandReturned =>
        /\ \A ij \in BracketTokens(input) :
               ~IsReference(TokenText(input, ij)) =>
                   LET before == expand(storage, Before(input, ij))
                       after == expand(storage, After(input, ij))
                   IN  /\ result.ok =>
                              /\ before.ok /\ after.ok
                              /\ result.value = before.value
                                     \o SubSeq(input, ij[1], ij[2]) \o after.value
                              /\ lookups = before.lookups \o after.lookups
                       /\ ~result.ok =>
                              result = IF before.ok THEN expand_result(after)
                                       ELSE expand_result(before)
        /\ (/\ AllClosed(input)
            /\ \A ij \in BracketTokens(input) : ~IsReference(TokenText(input, ij))) =>
               result = Ok(input) /\ lookups = <<>>

C13_Witness ==
    /\ ExpandReturned
    /\ input = <<"<", "a", ">">> \o snippet_tag(<<"s">>) \o <<"<", "a", ">">>
    /\ 1 \in DOMAIN snippets
    /\ snippets[1] = [id |-> 1, name |-> <<"s">>, content |-> <<>>]
    /\ result = Ok(<<"<", "a", ">", "<", "a", ">">>)
    /\ lookups = << <<"s">> >>

\* the name is stored
Stored(name) == \E i \in DOMAIN snippets : snippets[i].name = name

\* the content stored under the name
ContentOf(name) == snippets[CHOOSE i \in DOMAIN snippets : snippets[i].name = name].content

\* the number of places of s where "<snippet:" stands
ReferencesIn(s) ==
    Cardinality({ i \in 1..Len(s) :
                    /\ i + Len(SnippetPrefix) - 1 <= Len(s)
                    /\ SubSeq(s, i, i + Len(SnippetPrefix) - 1) = SnippetPrefix })

\* C14: expansion is a single pass: in a successful call every
\* <snippet:NAME> of the input is replaced by exactly the stored content of
\* NAME, between the expansions of the text before and after it; the content
\* is not rescanned, so a reference inside it stays literal and the call
\* looks up no more names than the input has references.
C14_SinglePass ==
    (ExpandReturned /\ result.ok) =>
        /\ \A ij \in BracketTokens(input) :
               IsReference(TokenText(input, ij)) =>
                   LET name == ReferenceName(TokenText(input, ij))
                       before == expand(storage, Before(input, ij))
                       after == expand(storage, After(input, ij))
                   IN  /\ Stored(name)
                       /\ result.value = before.value \o ContentOf(name) \o after.value
                       /\ lookups = before.lookups \o <<name>> \o after.lookups
        /\ Len(lookups) <= ReferencesIn(input)

\* a snippet that references itself is expanded once
C14_Witness ==
    /\ ExpandReturned
    /\ input = <<"a">> \o snippet_tag(<<"s">>)
    /\ 2 \in DOMAIN snippets
    /\ snippets[2] = [id |-> 2, name |-> <<"s">>, content |-> snippet_tag(<<"s">>)]
    /\ result = Ok(<<"a">> \o snippet_tag(<<"s">>))
    /\ lookups = << <<"s">> >>

\* the name is one validate_snippet_name accepts
Accepted(name) == validate_snippet_name(name).ok

\* the references of s to names the storage does not hold
MissingReferences(s) ==
    { ij \in BracketTokens(s) :
        /\ IsReference(TokenText(s, ij))
        /\ Accepted(ReferenceName(TokenText(s, ij)))
        /\ ~Stored(ReferenceName(TokenText(s, ij))) }

\* the references of s that cannot be resolved: the name is refused or
\* not stored
FailingReferences(s) ==
    { ij \in BracketTokens(s) :
        /\ IsReference(TokenText(s, ij))
        /\ \/ ~Accepted(ReferenceName(TokenText(s, ij)))
           \/ ~Stored(ReferenceName(TokenText(s, ij))) }

\* the first of them
FirstFailing(s) ==
    CHOOSE ij \in FailingReferences(s) :
        \A other \in FailingReferences(s) : ij[1] <= other[1]

\* C15: if a reference of the text names a snippet the storage does not
\* hold, expand returns an error and no output string, whatever resolved
\* before; the error is that of the first reference that cannot be resolved
\* and carries its name when the name is a legal one; the name is looked up
\* once, and the call leaves the storage as it was.
C15_MissingSnippetFails ==
    [][Expand =>
        /\ UNCHANGED storage_vars
        /\ MissingReferences(input) # {} =>
               LET name == ReferenceName(TokenText(input, FirstFailing(input)))
               IN  /\ ~result'.ok
                   /\ DOMAIN result' = {"ok", "err"}
                   /\ Accepted(name) =>
                          /\ result'.err = [kind |-> "snippet not found", name |-> name]
                          /\ lookups'[Len(lookups')] = name
                          /\ Len(lookups') <= ReferencesIn(input)
                   /\ ~Accepted(name) =>
                          result'.err = [kind |-> "invalid snippet name"]]_vars

\* the first reference resolves, the second names a missing snippet
C15_Witness ==
    /\ ExpandReturned
    /\ input = snippet_tag(<<"s">>) \o <<"a">> \o snippet_tag(<<"t">>)
    /\ DOMAIN snippets = {1}
    /\ snippets[1] = [id |-> 1, name |-> <<"s">>, content |-> <<"a">>]
    /\ result = Err([kind |-> "snippet not found", name |-> <<"t">>])
    /\ lookups = << <<"s">>, <<"t">> >>

\* the name is empty or holds one of < > , { } ( ) [ ]
Illegal(name) ==
    \/ name = <<>>
    \/ \E i \in 1..Len(name) : name[i] \in {"<", ">", ",", "{", "}", "(", ")", "[", "]"}

\* the name the storage call is given
NameArgument ==
    IF call = "rename_snippet" THEN input.new_name ELSE input.name

\* C16: an empty snippet name, or one holding any of < > , { } ( ) [ ], is
\* rejected with an error wherever it is used: expand fails on reaching a
\* reference with such a name, and Snippet::new, upsert_snippet and
\* rename_snippet return the error and leave the snippet table and the name
\* index unchanged.
C16_IllegalNameRejected ==
    [][/\ Expand =>
           \A ij \in BracketTokens(input) :
               (/\ IsReference(TokenText(input, ij))
                /\ Illegal(ReferenceName(TokenText(input, ij)))
                /\ expand(storage, Before(input, ij)).ok) =>
                   result' = Err([kind |-> "invalid snippet name"])
       /\ ((SnippetNew \/ UpsertSnippet \/ RenameSnippet) /\ Illegal(NameArgument)) =>
              /\ result' = Err([kind |-> "invalid snippet name"])
              /\ snippets' = snippets
              /\ name_index' = name_index]_vars

C16_Witness ==
    /\ call = "rename_snippet"
    /\ pc = "returned"
    /\ input = [id |-> 1, new_name |-> <<"(">>]
    /\ DOMAIN snippets = {1, 2}
    /\ snippets[1].name = <<"s">>
    /\ name_index = index_of(snippets)
    /\ result = Err([kind |-> "invalid snippet name"])

-----------------------------------------------------------------------------
(* Properties of the prompt processor *)

ProcessorCall == call \in {"dry_run", "process_task", "execute"}

\* the raw main prompts and the main preset of the request
RawPositive == IF call = "dry_run" THEN input.raw_positive ELSE input.raw_prompt

RawNegative == IF call = "dry_run" THEN input.raw_negative ELSE input.negative_prompt

\* preset rewriting first, snippet expansion second
ExpectedPositive == expand(storage, apply_positive(input.main_preset, RawPositive))

ExpectedNegative == expand(storage, apply_negative(input.main_preset, RawNegative))

\* the error the main prompts make the request fail with
MainError ==
    IF ~ExpectedPositive.ok THEN ExpectedPositive.err ELSE ExpectedNegative.err

MainOk == ExpectedPositive.ok /\ ExpectedNegative.ok

\* C17: pipeline order for the main prompts in dry_run, process_task and
\* execute: the final positive is expand(apply_positive(raw positive)) and
\* the final negative is expand(apply_negative(raw negative)); these are the
\* strings returned, sent to the client and recorded; if either expansion
\* fails the request fails with that error, nothing is sent and nothing is
\* recorded.
C17_PresetThenExpand ==
    (ProcessorCall /\ pc # "call") =>
        /\ ~MainOk =>
               /\ pc = "returned"
               /\ result = Err(MainError)
               /\ client = <<>>
               /\ records = <<>>
        /\ (MainOk /\ call = "dry_run" /\ result.ok) =>
               /\ result.value.positive_after_preset
                      = apply_positive(input.main_preset, RawPositive)
               /\ result.value.negative_after_preset
                      = apply_negative(input.main_preset, RawNegative)
               /\ result.value.final_positive = ExpectedPositive.value
               /\ result.value.final_negative = ExpectedNegative.value
        /\ (MainOk /\ call = "process_task" /\ result.ok) =>
               result.value = <<ExpectedPositive.value, ExpectedNegative.value>>
        /\ (MainOk /\ call = "execute") =>
               /\ \A i \in 1..Len(client) :
                      /\ client[i].prompt_positive = ExpectedPositive.value
                      /\ client[i].prompt_negative = ExpectedNegative.value
               /\ \A id \in DOMAIN records :
                      /\ records[id].expanded_prompt = ExpectedPositive.value
                      /\ records[id].negative_prompt = ExpectedNegative.value

\* before "m", raw "x": the client is sent "m, x"
C17_Witness ==
    /\ call = "execute"
    /\ pc = "returned"
    /\ input.main_preset.before = Some(<<"m">>)
    /\ input.raw_prompt = <<"x">>
    /\ result.ok
    /\ Len(client) = 2
    /\ client[2].prompt_positive = <<"m", ",", " ", "x">>
    /\ result.value.expanded_prompt = <<"m", ",", " ", "x">>

\* the slot is enabled and has a non-blank prompt or a preset id
SlotKept(slot) ==
    /\ slot.enabled
    /\ \/ \E i \in 1..Len(slot.prompt) : ~is_whitespace(slot.prompt[i])
       \/ slot.preset_id # None

\* the kept slots in input order
KeptSlots == SelectSeq(input.character_slots, SlotKept)

\* the slot's preset is in storage
PresetStored(slot) == slot.preset_id # None /\ slot.preset_id[1] \in DOMAIN presets

\* the slot's texts after its preset
AfterPreset(slot) ==
    IF PresetStored(slot) THEN apply(presets[slot.preset_id[1]], slot.prompt)
    ELSE slot.prompt

UcAfterPreset(slot) ==
    IF PresetStored(slot) THEN apply_uc(presets[slot.preset_id[1]], slot.uc)
    ELSE slot.uc

\* the entry of a kept slot
SlotEntry(slot) ==
    [after_preset |-> AfterPreset(slot),
     final_prompt |-> expand(storage, AfterPreset(slot)).value,
     uc_after_preset |-> UcAfterPreset(slot),
     final_uc |-> expand(storage, UcAfterPreset(slot)).value,
     enabled |-> TRUE]

\* the snippet lookups of a kept slot
SlotLookups(slot) ==
    expand(storage, AfterPreset(slot)).lookups
        \o expand(storage, UcAfterPreset(slot)).lookups

\* C18: a successful dry_run returns, in input order, exactly one entry for
\* each slot that is enabled and has a non-blank prompt or a preset id;
\* the other slots give no entry, no preset lookup and no snippet lookup.
\* The entry holds the slot's prompt and uc rewritten by its preset when the
\* preset id is in storage, the unmodified texts when it is not, and the
\* expansions of those.
C18_DryRunSlots ==
    (call = "dry_run" /\ pc = "returned" /\ result.ok) =>
        /\ result.value.character_prompts
               = [i \in 1..Len(KeptSlots) |-> SlotEntry(KeptSlots[i])]
        /\ locals.preset_lookups
               = [i \in 1..Len(SelectSeq(KeptSlots, LAMBDA s : s.preset_id # None)) |->
                     SelectSeq(KeptSlots, LAMBDA s : s.preset_id # None)[i].preset_id[1]]
        /\ lookups = ExpectedPositive.lookups \o ExpectedNegative.lookups
               \o Concat([i \in 1..Len(KeptSlots) |-> SlotLookups(KeptSlots[i])])

\* a disabled slot referring to a missing snippet, then a slot whose preset
\* id is stale
C18_Witness ==
    /\ call = "dry_run"
    /\ pc = "returned"
    /\ snippets = <<>>
    /\ presets # <<>>
    /\ input.character_slots
           = << [prompt |-> snippet_tag(<<"t">>), uc |-> <<>>, enabled |-> FALSE,
                 preset_id |-> None],
                [prompt |-> <<"x">>, uc |-> <<"y">>, enabled |-> TRUE,
                 preset_id |-> Some(2)] >>
    /\ result.ok
    /\ result.value.character_prompts
           = << [after_preset |-> <<"x">>, final_prompt |-> <<"x">>,
                 uc_after_preset |-> <<"y">>, final_uc |-> <<"y">>,
                 enabled |-> TRUE] >>
    /\ locals.preset_lookups = <<2>>

\* the character prompts of the task as given
GivenCharacterPrompts ==
    IF input.params.character_prompts = None THEN <<>>
    ELSE input.params.character_prompts[1]

\* every enabled character prompt of the task can be expanded
EnabledExpand ==
    \A i \in 1..Len(GivenCharacterPrompts) :
        GivenCharacterPrompts[i].enabled =>
            /\ expand(storage, GivenCharacterPrompts[i].prompt).ok
            /\ expand(storage, GivenCharacterPrompts[i].uc).ok

\* C19: the execution path drops a disabled character prompt without
\* processing it: when the main prompts and every enabled character prompt
\* can be expanded, process_task and the prompt processing of execute do not
\* fail.
C19_DisabledSlotDropped ==
    (call \in {"process_task", "execute"} /\ pc = "returned"
        /\ MainOk /\ EnabledExpand) =>
        \/ result.ok
        \/ result.err.kind = "generate image"

\* the text holds no //...// span: strip_comments would return it unchanged
NoCommentSpan(s) == strip_comments(s).ok => strip_comments(s).value = s

\* C20: the positive, negative and character prompt strings that execute
\* passes to the generation client hold no //...// comment span.
C20_NoCommentReachesClient ==
    \A i \in 1..Len(client) :
        /\ NoCommentSpan(client[i].prompt_positive)
        /\ NoCommentSpan(client[i].prompt_negative)
        /\ client[i].character_prompts # None =>
               \A k \in 1..Len(client[i].character_prompts[1]) :
                   /\ NoCommentSpan(client[i].character_prompts[1][k].prompt)
                   /\ NoCommentSpan(client[i].character_prompts[1][k].uc)

-----------------------------------------------------------------------------
(* Further properties of parse *)

\* a `//` starts at index i of chars
SlashSlashAt(i) ==
    /\ i + 1 < Len(chars)
    /\ CharAt(chars, i) = "/"
    /\ CharAt(chars, i + 1) = "/"

\* the first `//` after the one at the scan position starts at index j
ClosingAt(j) ==
    /\ j >= pos + 2
    /\ SlashSlashAt(j)
    /\ \A k \in (pos + 2)..(j - 1) : ~SlashSlashAt(k)

\* the scan position is at a `//` that a later `//` closes
AtClosedComment ==
    /\ InParse
    /\ AtLoopHead
    /\ SlashSlashAt(pos)
    /\ \E j \in 0..Len(chars) : ClosingAt(j)

\* C21: a recognised comment is opaque: at a `//` that a later `//` closes,
\* the iteration emits exactly one Comment token that spans both delimiters
\* and whose value is the text between the opening `//` and the next `//`,
\* resumes the scan after the closing `//`, so that nothing inside is
\* tokenized, and leaves the brace depth, the bracket depth and the active
\* scalar as they were.
C21_CommentOpaque ==
    [][AtClosedComment =>
          \E j \in 0..Len(chars) :
              /\ ClosingAt(j)
              /\ tokens' = Append(tokens,
                     [type |-> "Comment",
                      value |-> [i \in 1..(j - pos - 2) |-> CharAt(chars, pos + 1 + i)],
                      start |-> ByteAt(chars, pos),
                      end |-> ByteAt(chars, j + 1) + 1])
              /\ pos' = j + 2
              /\ brace_depth' = brace_depth
              /\ bracket_depth' = bracket_depth
              /\ colon_weight' = colon_weight]_vars

\* `{1:://{::,//`: the comment holds a brace, a `::` and a comma; the depth
\* is 1 and the scalar is 1 before and after it
C21_Witness ==
    /\ ParseReturned
    /\ input = <<"{", "1", ":", ":", "/", "/", "{", ":", ":", ",", "/", "/">>
    /\ Len(result.tokens) = 3
    /\ result.tokens[3] = [type |-> "Comment", value |-> <<"{", ":", ":", ",">>,
                           start |-> 4, end |-> 12]
    /\ result.unclosed_braces = 1
    /\ result.unclosed_weight

\* the characters that start a token of their own
SeparatorChars == {"{", "}", "[", "]", ",", "\n", "\r"}

\* C22: token boundaries: a Whitespace token holds a maximal run of
\* non-newline whitespace, so no Whitespace token follows another, and a Text
\* token ends where another rule would match, so no Text token's value holds
\* a whitespace character, a comma, a brace, a bracket or a newline.
C22_TokenBoundaries ==
    InParse =>
        \A i \in 1..Len(tokens) :
            /\ tokens[i].type = "Whitespace" =>
                   /\ \A k \in 1..Len(tokens[i].value) :
                          /\ is_whitespace(tokens[i].value[k])
                          /\ tokens[i].value[k] \notin {"\n", "\r"}
                   /\ i < Len(tokens) => tokens[i + 1].type # "Whitespace"
            /\ tokens[i].type = "Text" =>
                   \A k \in 1..Len(tokens[i].value) :
                       /\ ~is_whitespace(tokens[i].value[k])
                       /\ tokens[i].value[k] \notin SeparatorChars

-----------------------------------------------------------------------------
(* Further properties of the storage *)

\* rename_snippet succeeds in giving a snippet another name
RenameSucceeds ==
    /\ RenameSnippet
    /\ result'.ok
    /\ snippets[input.id].name # input.new_name

\* the six rule fields of a stored preset
PresetFields(p) == {p.before, p.after, p.replace, p.uc_before, p.uc_after, p.uc_replace}

\* the rule field holds the tag
Refers(field, tag) == is_some(field) /\ contains(unwrap(field), tag)

\* C23: after rename_snippet(id, new) has succeeded with old # new, the new
\* name finds the snippet, the old name finds nothing, and no field of a
\* stored character preset or main preset and no prompt or uc field of the
\* stored LastGenerationSettings holds `<snippet:old>`.
C23_RenameUpdatesReferences ==
    [][RenameSucceeds =>
          /\ get_snippet_by_name(storage', input.new_name)
                 = Some([snippets[input.id] EXCEPT !.name = input.new_name])
          /\ get_snippet_by_name(storage', snippets[input.id].name) = None
          /\ \A id \in DOMAIN presets' : \A f \in PresetFields(presets'[id]) :
                 ~Refers(f, snippet_tag(snippets[input.id].name))
          /\ \A id \in DOMAIN main_presets' : \A f \in PresetFields(main_presets'[id]) :
                 ~Refers(f, snippet_tag(snippets[input.id].name))
          /\ is_some(settings') =>
                 /\ ~contains(unwrap(settings').prompt,
                              snippet_tag(snippets[input.id].name))
                 /\ ~contains(unwrap(settings').negative_prompt,
                              snippet_tag(snippets[input.id].name))
                 /\ \A i \in 1..Len(unwrap(settings').character_slots) :
                        /\ ~contains(unwrap(settings').character_slots[i].prompt,
                                     snippet_tag(snippets[input.id].name))
                        /\ ~contains(unwrap(settings').character_slots[i].uc,
                                     snippet_tag(snippets[input.id].name))]_vars

\* the name index and the snippet table agree
IndexConsistent ==
    /\ \A n \in DOMAIN name_index :
           /\ name_index[n] \in DOMAIN snippets
           /\ snippets[name_index[n]].name = n
    /\ \A id \in DOMAIN snippets :
           { n \in DOMAIN name_index : name_index[n] = id } = { snippets[id].name }
    /\ \A i, j \in DOMAIN snippets : snippets[i].name = snippets[j].name => i = j

\* C24: under any interleaving of concurrent upsert_snippet, rename_snippet
\* and delete_snippet calls the name index stays consistent with the snippet
\* table: every index entry points to an existing snippet of that name,
\* every stored snippet has exactly one index entry, and no two snippets
\* share a name.
C24_IndexConsistent == call = "concurrent" => IndexConsistent

-----------------------------------------------------------------------------
(* Properties of the TaskQueue *)

\* the status of the task with this id is of this kind
StatusIs(id, kind) == id \in DOMAIN statuses /\ statuses[id].kind = kind

\* the task has reached Completed or Failed
Terminal(id) == StatusIs(id, "Completed") \/ StatusIs(id, "Failed")

\* C25: the TaskQueue executes tasks one at a time in submission order: at
\* most one task is Running at any moment, and a task that is Running or
\* further has every task enqueued before it at Completed or Failed.
C25_OneAtATimeInOrder ==
    call = "queue" =>
        /\ Cardinality({ id \in DOMAIN statuses : StatusIs(id, "Running") }) <= 1
        /\ \A k \in 1..Len(channel) :
               (StatusIs(channel[k].id, "Running") \/ Terminal(channel[k].id)) =>
                   \A j \in 1..(k - 1) : Terminal(channel[j].id)

\* the task enqueued first has failed, the second is running, the third is
\* waiting in the channel
C25_Witness ==
    /\ call = "queue"
    /\ Len(channel) = 3
    /\ StatusIs(channel[1].id, "Failed")
    /\ StatusIs(channel[2].id, "Running")
    /\ StatusIs(channel[3].id, "Pending")

\* the rank of a status in the lifecycle; 0 before submit
Rank(map, id) ==
    IF id \notin DOMAIN map THEN 0
    ELSE CASE map[id].kind = "Pending" -> 1
           [] map[id].kind = "Running" -> 2
           [] OTHER -> 3

\* C26: the task status lifecycle: a task is recorded as Pending before it
\* is enqueued; a status changes only to the next one of Pending, Running,
\* Completed or Failed, so it never moves backwards and a terminal status
\* is never overwritten; every task accepted by submit eventually reaches
\* Completed or Failed, whether or not earlier tasks failed.
C26_Lifecycle ==
    /\ [](call = "queue" =>
             \A k \in 1..Len(channel) : channel[k].id \in DOMAIN statuses)
    /\ [][call = "queue" =>
             \A id \in Submitters :
                 \/ table_get(statuses', id) = table_get(statuses, id)
                 \/ Rank(statuses', id) = Rank(statuses, id) + 1]_vars
    /\ \A id \in Submitters :
           (call = "queue" /\ \E k \in 1..Len(channel) : channel[k].id = id)
               ~> Terminal(id)

\* the first two tasks have failed and the third has completed
C26_Witness ==
    /\ call = "queue"
    /\ Len(channel) = 3
    /\ StatusIs(channel[1].id, "Failed")
    /\ StatusIs(channel[2].id, "Failed")
    /\ statuses[channel[3].id]
           = Completed([task_id |-> channel[3].id, raw_prompt |-> <<"x">>])

-----------------------------------------------------------------------------
(* Further properties of expand, strip_comments, process_task and presets *)

\* s has a `<` at i that no later `>` closes
UnclosedAt(s, i) ==
    /\ s[i] = "<"
    /\ \A j \in (i + 1)..Len(s) : s[j] # ">"

\* the first such `<` of s is at i
FirstUnclosedAt(s, i) ==
    /\ UnclosedAt(s, i)
    /\ \A k \in 1..(i - 1) : ~UnclosedAt(s, k)

\* C27: when the input of expand holds a `<` with no later `>`, that `<` and
\* everything after it are copied to the output verbatim: the output is the
\* expansion of what precedes the `<`, followed by the rest of the input
\* as it is.
C27_UnclosedVerbatim ==
    ExpandReturned =>
        \A i \in 1..Len(input) :
            (/\ FirstUnclosedAt(input, i)
             /\ expand(storage, SubSeq(input, 1, i - 1)).ok) =>
                result = Ok(expand(storage, SubSeq(input, 1, i - 1)).value
                                \o SubSeq(input, i, Len(input)))

\* the spans of the Comment tokens among toks, in order
CommentTokenSpans(toks) ==
    LET found == SelectSeq(toks, LAMBDA t : t.type = "Comment")
    IN  [i \in 1..Len(found) |->
            [start |-> found[i].start, end |-> found[i].end,
             content |-> found[i].value]]

\* C28: strip_comments, find_comments and parse agree on what is a comment:
\* on an input strip_comments accepts, the spans find_comments reports are
\* the spans of the Comment tokens of parse, and the output of
\* strip_comments is the input without those spans.
C28_CommentsAgree ==
    (ParseReturned /\ strip_comments(input).ok) =>
        /\ find_comments(input) = CommentTokenSpans(result.tokens)
        /\ strip_comments(input).value
               = Outside(input, { <<result.tokens[i].start, result.tokens[i].end>> :
                                    i \in { k \in 1..Len(result.tokens) :
                                               result.tokens[k].type = "Comment" } })

\* C29: when process_task returns an error the GenerateTaskRequest passed to
\* it is unchanged: no character prompt's prompt or uc has been overwritten
\* with expanded text.
C29_FailedTaskUnchanged ==
    (call = "process_task" /\ pc = "returned" /\ ~result.ok) => task = input

\* the field is absent or holds nothing but whitespace
BlankField(o) == o = None \/ \A i \in 1..Len(o[1]) : is_whitespace(o[1][i])

\* the six fields of the rule are blank
AllBlank(p) == \A f \in PresetFields(p) : BlankField(f)

\* C30: a preset rule whose six fields are all blank is the identity:
\* apply_positive, apply_negative, apply and apply_uc return the raw input
\* unchanged, the empty one included, and add no separator.
C30_BlankRuleIdentity ==
    (PresetReturned /\ AllBlank(preset)) => result = input

\* whitespace-only and empty fields around a raw text that ends in a comma
\* and a space
C30_Witness ==
    /\ call = "apply_negative"
    /\ pc = "returned"
    /\ preset = [before |-> None, after |-> None, replace |-> None,
                 uc_before |-> Some(<<" ">>), uc_after |-> Some(<<>>),
                 uc_replace |-> Some(<<" ">>)]
    /\ input = <<",", " ">>
    /\ result = <<",", " ">>

====
